---- MODULE Spec2Model ----
(***************************************************************************)
(* A model of the vox forecasting bot: the committee workflow of one       *)
(* binary, numeric or multiple-choice question (bot/agents.py,             *)
(* bot/forecaster.py), the parsing and aggregation functions it uses       *)
(* (bot/utils.py), the TTL response cache of the market-data client        *)
(* (research/adj_client.py) and the admission limiters of the two bot      *)
(* classes (main.py).                                                      *)
(*                                                                         *)
(* Probabilities are integers in basis points (0.30 is 3000).  Python     *)
(* lists are functions on 0..len-1, so that indices read as in the source. *)
(***************************************************************************)
EXTENDS Integers, Sequences, FiniteSets, TLC

VARIABLES
    \* ---- committee workflow of one question ----
    agent_names,        \* the names handed to Forecaster(agent_names=...)
    agents,             \* Forecaster.agents: the committee, in order
    use_peer_review,    \* Forecaster.use_peer_review
    agent_max_retries,  \* config.agent_max_retries
    state,              \* where the workflow (forecast_binary, ...) stands
    call,               \* call[ph][i]: agent i's _call_llm of phase ph
    otherGiven,         \* otherGiven[i]: the other_agent handed to agent i's peer_review
    critiqueGiven,      \* critiqueGiven[i]: the peer_critique handed to agent i's revise_forecast
    forecasts,          \* the workflow's local `forecasts`
    critiques,          \* run_peer_reviews' local `critiques`
    result,             \* the CommitteeResult the workflow returned
    question_type,      \* which workflow of Forecaster runs the question
    lower_bound,        \* forecast_numeric's lower_bound
    upper_bound,        \* forecast_numeric's upper_bound
    completed,          \* history: the tasks of the current gather, in the order they ended
    \* ---- one agent operation, one aggregation ----
    agentOp,            \* the agent operation applied last, its response, whether it raised
    agentForecast,      \* the AgentForecast it returned, or None
    probabilities,      \* aggregate_logit_space's probabilities
    weights,            \* aggregate_logit_space's weights
    aggregated,         \* what the aggregation did and returned
    \* ---- one call of a function outside the workflow ----
    invocation,         \* the function called and its arguments
    frame,              \* where the call stands, its locals, what it returned
    \* ---- ResponseCache ----
    cache,              \* ResponseCache.cache, in dict (insertion) order
    max_size,           \* ResponseCache.max_size
    now,                \* time.time()
    ret,                \* what the last cache operation did and returned
    stored,             \* history: per key, the last set not undone by clear or eviction
    lock,               \* ResponseCache._lock: its holder, or NoTask
    tpc,                \* per concurrent caller: where it stands in its operation
    top,                \* per concurrent caller: the operation it runs
    serial,             \* history: the store had the operations run one by one
    \* ---- admission limiters ----
    sem,                \* per bot class: free permits of _concurrency_limiter
    qcls,               \* per question: the bot class that runs it
    qpc,                \* per question: where it stands
    qheld               \* per question: the permits it holds

wfVars == <<agent_names, agents, use_peer_review, agent_max_retries, state, call,
            otherGiven, critiqueGiven, forecasts, critiques, result, question_type,
            lower_bound, upper_bound, completed>>
fnVars == <<agentOp, agentForecast, probabilities, weights, aggregated, invocation, frame>>
cacheVars == <<cache, max_size, now, ret, stored, lock, tpc, top, serial>>
admVars == <<sem, qcls, qpc, qheld>>
vars == <<wfVars, cacheVars, admVars, fnVars>>

----------------------------------------------------------------------------
(* Bounds of the model *)

MaxAgents == 3
MaxRetries == 2

----------------------------------------------------------------------------
(* bot/agents.py: the registry and the committee *)

AGENT_CONFIGS ==
    << [name |-> "base_rate_analyst", weight |-> 10,
        system_prompt |-> "AGENT_PROMPTS[base_rate_analyst]"],
       [name |-> "market_prior",      weight |-> 15,
        system_prompt |-> "AGENT_PROMPTS[market_prior]"],
       [name |-> "status_quo_anchor", weight |-> 10,
        system_prompt |-> "AGENT_PROMPTS[status_quo_anchor]"],
       [name |-> "devils_advocate",   weight |-> 10,
        system_prompt |-> "AGENT_PROMPTS[devils_advocate]"],
       [name |-> "synthesizer",       weight |-> 15,
        system_prompt |-> "AGENT_PROMPTS[synthesizer]"] >>

RegistryNames == [k \in 1..Len(AGENT_CONFIGS) |-> AGENT_CONFIGS[k].name]

InRegistry(name) == \E k \in 1..Len(AGENT_CONFIGS) : AGENT_CONFIGS[k].name = name

ConfigOf(name) == AGENT_CONFIGS[CHOOSE k \in 1..Len(AGENT_CONFIGS) : AGENT_CONFIGS[k].name = name]

\* create_committee: one LLMAgent per requested name the registry knows, in the
\* requested order; unknown names are skipped.
RECURSIVE CreateCommittee(_)
CreateCommittee(names) ==
    IF names = << >> THEN << >>
    ELSE IF InRegistry(Head(names))
         THEN <<ConfigOf(Head(names))>> \o CreateCommittee(Tail(names))
         ELSE CreateCommittee(Tail(names))

\* The name lists the model hands to Forecaster.
RequestedNames ==
    { SubSeq(RegistryNames, 1, k) : k \in 0..MaxAgents }
        \cup { <<"unknown_agent">>, <<"market_prior", "market_prior">> }

n == Len(agents)
AgentIdx == 0..(n - 1)
AgentAt(i) == agents[i + 1]

----------------------------------------------------------------------------
(* bot/utils.py: texts and parse_probability *)

\* Optional[float]: None is << >>, a value p is <<p>>.
None == << >>

\* A text is the tuple of its characters; "" is the empty tuple.
EmptyText == << >>

DigitChars == <<"0","1","2","3","4","5","6","7","8","9">>
Digits == { DigitChars[k] : k \in 1..10 }
DigitsAndDot == Digits \cup {"."}
Spaces == {" ", "\n"}
UpperChars == <<"A","B","C","D","E","F","G","H","I","J","K","L","M","N","O","P","Q","R","S","T","U","V","W","X","Y","Z">>
LowerChars == <<"a","b","c","d","e","f","g","h","i","j","k","l","m","n","o","p","q","r","s","t","u","v","w","x","y","z">>

DigitVal(c) == (CHOOSE k \in 1..10 : DigitChars[k] = c) - 1

\* re.IGNORECASE: characters are compared in lower case
Lower(c) ==
    IF \E k \in 1..26 : UpperChars[k] = c
    THEN LowerChars[CHOOSE k \in 1..26 : UpperChars[k] = c]
    ELSE c

MinOf(S) == CHOOSE x \in S : \A y \in S : x <= y
MaxOf(S) == CHOOSE x \in S : \A y \in S : x >= y

\* The end (first position after it) of the longest run of characters of
\* class C that starts at p: what a greedy `\s*`, `\d+` or `[\d.]+` consumes.
RunEnd(text, p, C) ==
    CHOOSE e \in p..(Len(text) + 1) :
        /\ \A k \in p..(e - 1) : text[k] \in C
        /\ (e = Len(text) + 1 \/ text[e] \notin C)

\* The literal `lit` (in lower case) at p, ignoring case: the position after
\* it, or 0 when it is not there.
MatchLit(text, p, lit) ==
    IF /\ p + Len(lit) - 1 <= Len(text)
       /\ \A k \in 1..Len(lit) : Lower(text[p + k - 1]) = lit[k]
    THEN p + Len(lit)
    ELSE 0

\* `\d+(?:\.\d+)?` at p: the position after the number, or 0.  In the three
\* patterns that use it a shorter alternative of the number never lets the
\* rest of the pattern match, so the greedy one is the only candidate.
NumEnd(text, p) ==
    LET d == RunEnd(text, p, Digits) IN
    IF d = p THEN 0
    ELSE IF d <= Len(text) /\ text[d] = "." /\ RunEnd(text, d + 1, Digits) > d + 1
         THEN RunEnd(text, d + 1, Digits)
         ELSE d

\* `\s*` and then the literal `lit` at p: the position after it, or 0
SpacesThen(text, p, lit) == MatchLit(text, RunEnd(text, p, Spaces), lit)

\* `\s*` at p and then the longest run of characters of class C: that run
Token(text, p, C) ==
    SubSeq(text, RunEnd(text, p, Spaces), RunEnd(text, RunEnd(text, p, Spaces), C) - 1)

\* rf"{label}\s*([\d.]+)" at p, ignoring case: <<group 1>>, or None
LabelledAt(text, p, label) ==
    IF /\ MatchLit(text, p, label) # 0
       /\ Token(text, MatchLit(text, p, label), DigitsAndDot) # << >>
    THEN <<Token(text, MatchLit(text, p, label), DigitsAndDot)>>
    ELSE None

\* r"PROBABILITY:\s*([\d.]+)" at p: <<group 1>>, or None
ProbabilityAt(text, p) ==
    LabelledAt(text, p, <<"p","r","o","b","a","b","i","l","i","t","y",":">>)

\* r"(\d+(?:\.\d+)?)\s*%" at p: <<group 1>>, or None
PercentAt(text, p) ==
    IF NumEnd(text, p) # 0 /\ SpacesThen(text, NumEnd(text, p), <<"%">>) # 0
    THEN <<SubSeq(text, p, NumEnd(text, p) - 1)>>
    ELSE None

\* r"\s*(?:in|out of)\s*(\d+)" at e: <<group 2>>, or None
RatioTail(text, e) ==
    LET w == IF SpacesThen(text, e, <<"i","n">>) # 0
             THEN SpacesThen(text, e, <<"i","n">>)
             ELSE SpacesThen(text, e, <<"o","u","t"," ","o","f">>)
    IN  IF w # 0 /\ Token(text, w, Digits) # << >>
        THEN <<Token(text, w, Digits)>>
        ELSE None

\* r"(\d+(?:\.\d+)?)\s*(?:in|out of)\s*(\d+)" at p: <<group 1, group 2>>, or None
RatioAt(text, p) ==
    IF NumEnd(text, p) # 0 /\ RatioTail(text, NumEnd(text, p)) # None
    THEN <<SubSeq(text, p, NumEnd(text, p) - 1)>> \o RatioTail(text, NumEnd(text, p))
    ELSE None

OddsWords == { <<"o","d","d","s">>, <<"c","h","a","n","c","e">>, <<"l","i","k","e","l","i","h","o","o","d">> }

\* r"(?:odds|chance|likelihood).*?(\d+(?:\.\d+)?)" at p: <<group 1>>, or None.
\* The lazy `.*?` stops at the first digit of the line.
OddsAt(text, p) ==
    LET ends == { MatchLit(text, p, w) : w \in OddsWords } \ {0} IN
    IF ends = {} THEN None
    ELSE LET q == MinOf(ends)
             ds == { r \in q..Len(text) :
                        /\ text[r] \in Digits
                        /\ \A k \in q..(r - 1) : text[k] # "\n" }
         IN  IF ds = {} THEN None
             ELSE <<SubSeq(text, MinOf(ds), NumEnd(text, MinOf(ds)) - 1)>>

\* r"MEDIAN:\s*([\d.]+)" at p: <<group 1>>, or None
MedianAt(text, p) == LabelledAt(text, p, <<"m","e","d","i","a","n",":">>)

\* re.search: matches[p] is what the pattern matches at start p, or None; the
\* match at the leftmost start
Search(matches) ==
    IF \A p \in DOMAIN matches : matches[p] = None THEN None
    ELSE matches[CHOOSE p \in DOMAIN matches :
                    matches[p] # None /\ \A q \in 1..(p - 1) : matches[q] = None]

\* float(token) raises ValueError unless the token has digits and at most one dot
FloatRaises(token) ==
    \/ Cardinality({ k \in 1..Len(token) : token[k] = "." }) > 1
    \/ \A k \in 1..Len(token) : token[k] = "."

RECURSIVE DigitsValue(_)
DigitsValue(ds) ==
    IF ds = << >> THEN 0
    ELSE DigitsValue(SubSeq(ds, 1, Len(ds) - 1)) * 10 + DigitVal(ds[Len(ds)])

\* float(token) in basis points, decimals beyond the fourth dropped
Float(token) ==
    LET dots == { k \in 1..Len(token) : token[k] = "." }
        dot == IF dots = {} THEN Len(token) + 1 ELSE MinOf(dots)
        frac == SubSeq(token, dot + 1, Len(token))
        frac4 == [k \in 1..4 |-> IF k <= Len(frac) THEN frac[k] ELSE "0"]
    IN  DigitsValue(SubSeq(token, 1, dot - 1)) * 10000 + DigitsValue(frac4)

\* Faulty variant, not the code: the value left as it is
NoClamp(prob) == prob

\* normalize_probability: max(0.01, min(0.99, prob))
NormalizeProbability(prob) ==
    LET low == IF prob < 9900 THEN prob ELSE 9900 IN
    IF low > 100 THEN low ELSE 100

\* parse_probability raises ValueError: the first pattern matched a token
\* that float() rejects (the other patterns capture well-formed numbers only)
ParseProbabilityRaises(text) ==
    LET m == Search([p \in 1..Len(text) |-> ProbabilityAt(text, p)]) IN
    m # None /\ FloatRaises(m[1])

\* Faulty variant, not the code: the percentage is tried before the label
PercentFirst(m1, m2, m3, m4) ==
    IF m2 # None THEN <<NormalizeProbability(Float(m2[1]) \div 100)>>
    ELSE IF m1 # None THEN <<NormalizeProbability(Float(m1[1]))>>
    ELSE IF m3 # None /\ Float(m3[2]) > 0
         THEN <<NormalizeProbability((Float(m3[1]) * 10000) \div Float(m3[2]))>>
    ELSE IF m4 # None
         THEN <<NormalizeProbability(IF Float(m4[1]) > 10000
                                     THEN Float(m4[1]) \div 100
                                     ELSE Float(m4[1]))>>
    ELSE None

\* parse_probability after its searches, when it does not raise: m1 .. m4 are
\* the matches of the four patterns, tried in order
ProbabilityOfMatches(m1, m2, m3, m4) ==
    IF m1 # None THEN <<NormalizeProbability(Float(m1[1]))>>
    ELSE IF m2 # None THEN <<NormalizeProbability(Float(m2[1]) \div 100)>>
    ELSE IF m3 # None /\ Float(m3[2]) > 0
         THEN <<NormalizeProbability((Float(m3[1]) * 10000) \div Float(m3[2]))>>
    ELSE IF m4 # None
         THEN <<NormalizeProbability(IF Float(m4[1]) > 10000
                                     THEN Float(m4[1]) \div 100
                                     ELSE Float(m4[1]))>>
    ELSE None

\* parse_probability, when it does not raise
ParseProbability(text) ==
    ProbabilityOfMatches(Search([p \in 1..Len(text) |-> ProbabilityAt(text, p)]),
                         Search([p \in 1..Len(text) |-> PercentAt(text, p)]),
                         Search([p \in 1..Len(text) |-> RatioAt(text, p)]),
                         Search([p \in 1..Len(text) |-> OddsAt(text, p)]))

\* parse_median raises ValueError
ParseMedianRaises(text) ==
    LET m == Search([p \in 1..Len(text) |-> MedianAt(text, p)]) IN
    m # None /\ FloatRaises(m[1])

\* parse_median, when it does not raise (values in ten-thousandths)
ParseMedian(text) ==
    LET m == Search([p \in 1..Len(text) |-> MedianAt(text, p)]) IN
    IF m # None THEN <<Float(m[1])>> ELSE None

\* parse_percentiles: the labels p10 .. p90
PercentileLabels ==
    { <<"p", DigitChars[k + 1], "0", ":">> : k \in 1..9 }

\* parse_percentiles raises ValueError: some label's token is no float
ParsePercentilesRaises(text) ==
    \E label \in PercentileLabels :
        LET m == Search([p \in 1..Len(text) |-> LabelledAt(text, p, label)]) IN
        m # None /\ FloatRaises(m[1])

\* The options of a multiple-choice question, in lower case
Options == << <<"y","e","s">>, <<"n","o">> >>

\* parse_option_probabilities raises ValueError: rf"{option}:\s*([\d.]+)"
\* for some option captured a token that is no float
ParseOptionProbabilitiesRaises(text, options) ==
    \E k \in 1..Len(options) :
        LET m == Search([p \in 1..Len(text) |-> LabelledAt(text, p, options[k] \o <<":">>)]) IN
        m # None /\ FloatRaises(m[1])

----------------------------------------------------------------------------
(* The response texts of the model *)

\* The response texts, by name
Text ==
    [ Probability030 |-> <<"P","R","O","B","A","B","I","L","I","T","Y",":"," ","0",".","3","0">>,
      NoNumber |-> <<"n","o"," ","n","u","m","b","e","r"," ","h","e","r","e">>,
      ProbabilityDot |-> <<"P","R","O","B","A","B","I","L","I","T","Y",":"," ",".">>,
      ProbabilityMalformed |-> <<"P","R","O","B","A","B","I","L","I","T","Y",":"," ","1",".","2",".","3">>,
      Probability75 |-> <<"p","r","o","b","a","b","i","l","i","t","y",":","7","5">>,
      ProbabilityZero |-> <<"P","R","O","B","A","B","I","L","I","T","Y",":"," ","0">>,
      Percent5 |-> <<"a","b","o","u","t"," ","5","%">>,
      Percent150 |-> <<"1","5","0"," ","%">>,
      OneInFour |-> <<"1"," ","i","n"," ","4">>,
      OneInZero |-> <<"1"," ","i","n"," ","0">>,
      Chance70 |-> <<"c","h","a","n","c","e"," ","o","f"," ","7","0">>,
      OddsZero |-> <<"o","d","d","s"," ","0">>,
      Critique |-> <<"a"," ","c","r","i","t","i","q","u","e">>,
      Median5 |-> <<"M","E","D","I","A","N",":"," ","5">>,
      MedianDot |-> <<"M","E","D","I","A","N",":"," ",".">>,
      Choices |-> <<"Y","e","s",":"," ","0",".","6"," ","N","o",":"," ","0",".","4">>,
      OptionDot |-> <<"Y","e","s",":"," ",".">>,
      ChoicesZero |-> <<"y","e","s",":"," ","0"," ","n","o",":"," ","0",".","0">>,
      ChoiceYes |-> <<"Y","E","S",":"," ","3">>,
      LabelAndPercent |-> <<"p","r","o","b","a","b","i","l","i","t","y",":","0",".","3"," ","5","%">>,
      PercentChanceRatio |-> <<"5","%"," ","c","h","a","n","c","e"," ","1"," ","i","n"," ","4">>,
      ChanceOneInFour |-> <<"c","h","a","n","c","e"," ","1"," ","i","n"," ","4">>,
      ChanceOneInZero |-> <<"c","h","a","n","c","e"," ","1"," ","i","n"," ","0">>,
      Reasoned |-> <<" ","R","e","a","s","o","n","i","n","g",":"," "," ","l","o","w"," ",
                     "P","r","o","b","a","b","i","l","i","t","y",":"," ","0",".","2"," ">> ]

\* The texts a successful remote call returns in the workflow.
NumericTexts == {Text.Median5, Text.NoNumber, Text.MedianDot}
ChoiceTexts == {Text.Choices, Text.NoNumber, Text.OptionDot}
ForecastTexts == {Text.Probability030, Text.NoNumber, Text.ProbabilityDot}
RevisionTexts == {Text.Probability75, Text.ProbabilityDot}
CritiqueTexts == {Text.Critique}

\* The texts handed to one agent operation outside the workflow.
AgentTexts ==
    ForecastTexts \cup RevisionTexts \cup
    { EmptyText, Text.Reasoned, Text.ProbabilityMalformed, Text.Probability75, Text.ProbabilityZero,
      Text.Percent5, Text.Percent150, Text.OneInFour, Text.OneInZero, Text.Chance70,
      Text.OddsZero, Text.LabelAndPercent, Text.PercentChanceRatio, Text.ChanceOneInFour,
      Text.ChanceOneInZero }

Texts == ForecastTexts \cup CritiqueTexts \cup AgentTexts

\* text.strip()
Strip(text) ==
    IF \A k \in 1..Len(text) : text[k] \in Spaces THEN EmptyText
    ELSE SubSeq(text, MinOf({ k \in 1..Len(text) : text[k] \notin Spaces }),
                      MaxOf({ k \in 1..Len(text) : text[k] \notin Spaces }))

\* the labels of the lookahead (?=PROBABILITY:|MEDIAN:|PROBABILITIES:|$)
StopLabels ==
    { <<"p","r","o","b","a","b","i","l","i","t","y",":">>, <<"m","e","d","i","a","n",":">>,
      <<"p","r","o","b","a","b","i","l","i","t","i","e","s",":">> }

\* the lazy group (.*?) that starts at p: it ends before the first position
\* from p on where the lookahead holds (a label, or the end of the text)
LazyGroup(text, p) ==
    SubSeq(text, p,
           MinOf({ q \in p..(Len(text) + 1) :
                     \/ q = Len(text) + 1
                     \/ \E label \in StopLabels : MatchLit(text, q, label) # 0 }) - 1)

\* extract_reasoning: the stripped group after the first "REASONING:" and its
\* whitespace, or the stripped text when there is no such label
ExtractReasoning(text) ==
    IF \A p \in 1..Len(text) : MatchLit(text, p, <<"r","e","a","s","o","n","i","n","g",":">>) = 0
    THEN Strip(text)
    ELSE Strip(LazyGroup(text,
             RunEnd(text,
                    MatchLit(text,
                        MinOf({ p \in 1..Len(text) :
                                  MatchLit(text, p, <<"r","e","a","s","o","n","i","n","g",":">>) # 0 }),
                        <<"r","e","a","s","o","n","i","n","g",":">>),
                    Spaces)))

\* extract_reasoning over the model's texts, evaluated once per text
ReasoningOn == [text \in Texts |-> ExtractReasoning(text)]

\* parse_probability over the model's texts, evaluated once per text:
\* whether it raises, and what it returns when it does not.
ParseRaisesOn == [text \in Texts |-> ParseProbabilityRaises(text)]
ParseResultOn ==
    [text \in Texts |-> IF ParseProbabilityRaises(text) THEN None ELSE ParseProbability(text)]

----------------------------------------------------------------------------
(* bot/agents.py: the agent operations *)

\* Python's `a or b` on an Optional[float] a: None and 0.0 are falsy.
PyOr(a, b) == IF a = None \/ a = <<0>> THEN b ELSE a

NoCritique == [author |-> "", about |-> "", text |-> EmptyText]

\* LLMAgent.forecast, after its _call_llm returned `response`.
Forecast(i, response) ==
    LET probability == PyOr(ParseResultOn[response], <<5000>>) IN
    [ agent_name |-> AgentAt(i).name,
      weight |-> AgentAt(i).weight,
      initial_reasoning |-> ReasoningOn[response],
      initial_probability |-> probability,
      peer_critique |-> NoCritique,
      final_probability |-> probability[1],
      final_reasoning |-> ReasoningOn[response] ]

\* LLMAgent.peer_review, after its _call_llm returned `response`: the critique
\* is the response text; the model also records who wrote it and whose
\* forecast the prompt showed.
PeerReview(i, other_agent, response) ==
    [ author |-> AgentAt(i).name, about |-> other_agent.agent_name, text |-> response ]

\* LLMAgent.revise_forecast, after its _call_llm returned `response`.
ReviseForecast(i, initial_forecast, peer_critique, response) ==
    LET probability == PyOr(ParseResultOn[response], initial_forecast.initial_probability) IN
    [ agent_name |-> AgentAt(i).name,
      weight |-> AgentAt(i).weight,
      initial_reasoning |-> initial_forecast.initial_reasoning,
      initial_probability |-> initial_forecast.initial_probability,
      peer_critique |-> peer_critique,
      final_probability |-> probability[1],
      final_reasoning |-> ReasoningOn[response] ]

\* One agent operation applied to a response, outside the workflow.
NoAgentOp == [name |-> "none", response |-> EmptyText, raised |-> FALSE,
              parsed |-> None, given |-> None, initial |-> None]

\* Faulty variant, not the code: the forecast handed in is overwritten with the revised one
RevisedInPlace(initial_forecast, revised) == revised

\* revise_forecast reads initial_forecast and assigns to none of its
\* attributes: the object handed in, as it is when the operation has returned
InitialAfterRevise(initial_forecast, revised) == initial_forecast

NoAggregation == [done |-> FALSE, raised |-> FALSE, value |-> 0]

----------------------------------------------------------------------------
(* bot/agents.py: LLMAgent._call_llm, one step per await *)

Phases == {"forecast", "critique", "revise"}

\* A call of _call_llm: `attempt` is the loop variable (0 again once the frame
\* is gone), `resp` the returned text, `ok` whether a post returned a response.
\* Faulty variant, not the code: the coroutines of a gather are never scheduled
NeverScheduled == [st |-> "none", attempt |-> 0, resp |-> EmptyText, ok |-> FALSE, system |-> ""]

\* `system` is the "system" entry of the payload the call posts.
NoCall == [st |-> "none", attempt |-> 0, resp |-> EmptyText, ok |-> FALSE, system |-> ""]

\* a coroutine handed to asyncio.gather, which schedules it as a task
Pending == [st |-> "pending", attempt |-> 0, resp |-> EmptyText, ok |-> FALSE, system |-> ""]

\* Entering _call_llm: `for attempt in range(agent_max_retries)` runs no
\* iteration when agent_max_retries <= 0 and the function falls through to
\* `return ""`; otherwise attempt 0 is posted.
CallLlmBegin ==
    IF agent_max_retries <= 0
    THEN [st |-> "done", attempt |-> 0, resp |-> EmptyText, ok |-> FALSE, system |-> ""]
    ELSE [st |-> "inflight", attempt |-> 0, resp |-> EmptyText, ok |-> FALSE, system |-> ""]

\* Faulty variant, not the code: every call posts the persona of the first agent
SystemOfFirst(i) == agents[1].system_prompt

\* The payload of agent i's _call_llm: "system": self.system_prompt
SystemOf(i) == agents[i + 1].system_prompt

\* Agent i enters _call_llm
CallLlmOf(i) == [CallLlmBegin EXCEPT !.system = SystemOf(i)]

\* The post of the current attempt returned 2xx with `text`.
CallLlmSucceeds(c, text) ==
    [st |-> "done", attempt |-> 0, resp |-> text, ok |-> TRUE, system |-> c.system]

\* The current attempt (number c.attempt) raised: the last one raises
\* RuntimeError, an earlier one sleeps 2**attempt and posts the next.
CallLlmFails(c) ==
    IF c.attempt = agent_max_retries - 1
    THEN [c EXCEPT !.st = "raised", !.attempt = 0]
    ELSE [c EXCEPT !.attempt = @ + 1]

TextsOf(ph) ==
    IF ph = "critique" THEN CritiqueTexts
    ELSE IF question_type = "numeric" THEN NumericTexts
    ELSE IF question_type = "multiple_choice" THEN ChoiceTexts
    ELSE IF ph = "revise" THEN RevisionTexts
    ELSE ForecastTexts

----------------------------------------------------------------------------
(* bot/utils.py: aggregation in logit space *)

\* Logits are integers in thousandths (logit(0.99) = 4.595 is 4595), weights
\* in tenths (1.5 is 15).  logit and inv_logit are tabulated on the grid of
\* whole percents, extended by the clamp bounds 0.0001 and 0.9999 of logit.
LogitGrid == <<
    1, 100, 200, 300, 400, 500, 600, 700, 800, 900, 1000, 1100, 1200, 1300,
    1400, 1500, 1600, 1700, 1800, 1900, 2000, 2100, 2200, 2300, 2400, 2500,
    2600, 2700, 2800, 2900, 3000, 3100, 3200, 3300, 3400, 3500, 3600, 3700,
    3800, 3900, 4000, 4100, 4200, 4300, 4400, 4500, 4600, 4700, 4800, 4900,
    5000, 5100, 5200, 5300, 5400, 5500, 5600, 5700, 5800, 5900, 6000, 6100,
    6200, 6300, 6400, 6500, 6600, 6700, 6800, 6900, 7000, 7100, 7200, 7300,
    7400, 7500, 7600, 7700, 7800, 7900, 8000, 8100, 8200, 8300, 8400, 8500,
    8600, 8700, 8800, 8900, 9000, 9100, 9200, 9300, 9400, 9500, 9600, 9700,
    9800, 9900, 9999 >>

\* round(1000 * log(p / (1 - p))) for the p of LogitGrid, in the same order
LogitThousandths == <<
    -9210, -4595, -3892, -3476, -3178, -2944, -2752, -2587, -2442, -2314,
    -2197, -2091, -1992, -1901, -1815, -1735, -1658, -1586, -1516, -1450,
    -1386, -1325, -1266, -1208, -1153, -1099, -1046, -995, -944, -895,
    -847, -800, -754, -708, -663, -619, -575, -532, -490, -447, -405, -364,
    -323, -282, -241, -201, -160, -120, -80, -40, 0, 40, 80, 120, 160, 201,
    241, 282, 323, 364, 405, 447, 490, 532, 575, 619, 663, 708, 754, 800,
    847, 895, 944, 995, 1046, 1099, 1153, 1208, 1266, 1325, 1386, 1450,
    1516, 1586, 1658, 1735, 1815, 1901, 1992, 2091, 2197, 2314, 2442, 2587,
    2752, 2944, 3178, 3476, 3892, 4595, 9210 >>

\* Faulty variant, not the code: the probability itself is averaged
LogitSkipped(p) == p

\* logit: p clamped into [0.0001, 0.9999], then log(p / (1 - p)); a p between
\* two grid points takes the value of the lower one
Logit(p) ==
    LET c == IF p < 1 THEN 1 ELSE IF p > 9999 THEN 9999 ELSE p IN
    LogitThousandths[CHOOSE j \in 1..Len(LogitGrid) :
                        /\ LogitGrid[j] <= c
                        /\ j < Len(LogitGrid) => LogitGrid[j + 1] > c]

\* inv_logit: 1 / (1 + exp(-x)), rounded down to the grid; 0 stands for a
\* value below 0.0001
InvLogit(x) ==
    IF x < LogitThousandths[1] THEN 0
    ELSE LogitGrid[CHOOSE j \in 1..Len(LogitGrid) :
                      /\ LogitThousandths[j] <= x
                      /\ j < Len(LogitGrid) => LogitThousandths[j + 1] > x]

RECURSIVE SumSeq(_)
SumSeq(xs) == IF xs = << >> THEN 0 ELSE Head(xs) + SumSeq(Tail(xs))

\* a / b of Python floats, rounded down to a whole unit (b # 0)
Divide(a, b) == IF b > 0 THEN a \div b ELSE (0 - a) \div (0 - b)

\* weighted_average raises ValueError: both lists non-empty, lengths differ
WeightedAverageRaises(values, ws) ==
    values # << >> /\ ws # << >> /\ Len(values) # Len(ws)

\* Faulty variant, not the code: the weights are ignored
UnweightedAverage(values, ws) ==
    IF values = << >> \/ ws = << >> THEN 500
    ELSE Divide(SumSeq(values), Len(values))

\* weighted_average, when it does not raise.  Its only caller hands it
\* logits, so its values are in thousandths and its `return 0.5` is 500.
WeightedAverage(values, ws) ==
    IF values = << >> \/ ws = << >> THEN 500
    ELSE IF SumSeq(ws) = 0 THEN 500
    ELSE Divide(SumSeq([k \in 1..Len(values) |-> values[k] * ws[k]]), SumSeq(ws))

\* aggregate_logit_space: the 0.5 weighted_average falls back to is handed to
\* inv_logit like any average of logits.  (The list of logits and their
\* average are each a value with a name: logits, avg.)
AggregateLogitSpace(ps, ws) ==
    CHOOSE r \in
        { InvLogit(avg) :
            avg \in { WeightedAverage(logits, w) :
                        logits \in { [k \in 1..Len(ps) |-> Logit(ps[k])] }, w \in {ws} } } : TRUE

\* Forecaster._aggregate_forecasts
AggregateForecasts(fs) ==
    AggregateLogitSpace([k \in 1..Cardinality(DOMAIN fs) |-> fs[k - 1].final_probability],
                        [k \in 1..Cardinality(DOMAIN fs) |-> fs[k - 1].weight])

----------------------------------------------------------------------------
(* bot/agents.py, bot/forecaster.py: the workflows of Forecaster *)

NoResult == [question_type |-> "none", agent_forecasts |-> << >>, final_probability |-> 5000,
             final_cdf |-> None]

\* The workflows of Forecaster, and the ranges handed to forecast_numeric
\* (in ten-thousandths)
QuestionTypes == {"binary", "numeric", "multiple_choice"}
NumericRanges == { <<0, 1000000>>, <<500000, 500000>> }

\* Forecaster._forecast_numeric_agent raises: parse_percentiles or
\* parse_median raised on the response
NumericForecastRaises(response) ==
    ParsePercentilesRaises(response) \/ ParseMedianRaises(response)

\* The parsers of the numeric and multiple-choice workflows over the model's
\* texts (the "" of a call without attempts among them), evaluated once per text
NumericRaisesOn == [text \in NumericTexts \cup {EmptyText} |-> NumericForecastRaises(text)]
MedianOn ==
    [text \in NumericTexts \cup {EmptyText} |->
        IF ParseMedianRaises(text) THEN None ELSE ParseMedian(text)]
ChoiceRaisesOn ==
    [text \in ChoiceTexts \cup {EmptyText} |-> ParseOptionProbabilitiesRaises(text, Options)]

\* Forecaster._forecast_numeric_agent, after its _call_llm returned `response`
NumericForecast(i, response) ==
    LET median == MedianOn[response] IN
    [ agent_name |-> AgentAt(i).name,
      weight |-> AgentAt(i).weight,
      initial_probability |-> None,
      peer_critique |-> NoCritique,
      final_probability |-> PyOr(median, <<Divide(lower_bound + upper_bound, 2)>>)[1] ]

\* forecast_multiple_choice, the body of its loop after _call_llm returned
ChoiceForecast(i, response) ==
    [ agent_name |-> AgentAt(i).name,
      weight |-> AgentAt(i).weight,
      initial_probability |-> None,
      peer_critique |-> NoCritique,
      final_probability |-> 5000 ]

\* The iteration of the agent loop raised / what it appends
LoopRaised(i) ==
    \/ call["forecast"][i].st = "raised"
    \/ /\ call["forecast"][i].st = "done"
       /\ IF question_type = "numeric"
          THEN NumericRaisesOn[call["forecast"][i].resp]
          ELSE ChoiceRaisesOn[call["forecast"][i].resp]

LoopResult(i) ==
    IF question_type = "numeric"
    THEN NumericForecast(i, call["forecast"][i].resp)
    ELSE ChoiceForecast(i, call["forecast"][i].resp)

\* the number of grid points of a CDF
CdfPoints == 201

\* Forecaster._aggregate_cdfs: the list it creates, which its loop over the
\* forecasts leaves as it is
AggregateCdfs(fs, lower, upper) == [k \in 0..(CdfPoints - 1) |-> 0]

\* Faulty variant, not the code: the ring walked the other way: reviewed_idx = (i - 1) % n
ReviewedIdxBackwards(i, len) == (i + len - 1) % len

\* run_peer_reviews: reviewed_idx = (i + 1) % n
ReviewedIdx(i, len) == (i + 1) % len

\* run_revisions: zip(agents, forecasts, critiques) pairs agent i with critiques[i]
RevisionCritique(cs, i) == cs[i]

\* The coroutine of a gathered task (forecast or revise_forecast) returned:
\* its _call_llm returned and parse_probability did not raise on the response.
TaskReturned(ph, i) ==
    call[ph][i].st = "done" /\ ~ParseRaisesOn[call[ph][i].resp]

\* The coroutine raised: the RuntimeError of _call_llm, or the ValueError of
\* parse_probability (neither forecast nor revise_forecast catches it).
TaskRaised(ph, i) ==
    \/ call[ph][i].st = "raised"
    \/ call[ph][i].st = "done" /\ ParseRaisesOn[call[ph][i].resp]

\* What the coroutine of task i returns
TaskResult(ph, i) ==
    IF ph = "forecast"
    THEN Forecast(i, call[ph][i].resp)
    ELSE ReviseForecast(i, forecasts[i], critiqueGiven[i], call[ph][i].resp)

\* Faulty variant, not the code: the results in the order the tasks ended
GatherResultsAsCompleted(ph) ==
    [k \in AgentIdx |-> TaskResult(ph, completed[k + 1])]

\* asyncio.gather's result list: the results in the order of the awaitables
GatherResults(ph) == [i \in AgentIdx |-> TaskResult(ph, i)]

\* Faulty variant, not the code: the wait ends with the first task that returns
GatherFirstDone(ph) == \E i \in AgentIdx : TaskReturned(ph, i)

\* asyncio.gather returns once every task of the phase has returned.
GatherDone(ph) == \A i \in AgentIdx : TaskReturned(ph, i)

\* asyncio.gather raises as soon as one task of the phase has raised.
GatherRaised(ph) == \E i \in AgentIdx : TaskRaised(ph, i)

\* The history of ended tasks after task i's call became c
Ended(ph, i, c) ==
    IF ph \in {"forecast", "revise"} /\ c.st \in {"done", "raised"}
    THEN Append(completed, i)
    ELSE completed

Append0(f, x) ==
    LET k == Cardinality(DOMAIN f) IN
    [j \in 0..k |-> IF j < k THEN f[j] ELSE x]

Len0(f) == Cardinality(DOMAIN f)

WfInit ==
    /\ agent_names \in RequestedNames
    /\ agents = CreateCommittee(agent_names)
    /\ use_peer_review \in BOOLEAN
    /\ agent_max_retries \in 0..MaxRetries
    /\ state = "Idle"
    /\ call = [ph \in Phases |-> [i \in 0..(Len(CreateCommittee(agent_names)) - 1) |-> NoCall]]
    /\ otherGiven = << >>
    /\ critiqueGiven = << >>
    /\ forecasts = << >>
    /\ critiques = << >>
    /\ result = NoResult
    /\ question_type \in QuestionTypes
    /\ \E r \in (IF question_type = "numeric" THEN NumericRanges ELSE { <<0, 0>> }) :
          lower_bound = r[1] /\ upper_bound = r[2]
    /\ completed = << >>

\* forecast_binary, forecast_numeric, forecast_multiple_choice: the call of
\* integrated_research
StartResearch ==
    /\ state = "Idle"
    /\ state' = "Researching"
    /\ UNCHANGED <<cacheVars, admVars, fnVars, question_type, lower_bound, upper_bound, completed, agent_names, agents,
                   use_peer_review, agent_max_retries, call,
                   otherGiven, critiqueGiven, forecasts, critiques, result>>

\* integrated_research returned: run_initial_forecasts creates one task per
\* agent; forecast_numeric and forecast_multiple_choice enter their loop over
\* the agents
ResearchReturns ==
    /\ state = "Researching"
    /\ state' = "InitialForecasting"
    /\ call' = IF question_type = "binary"
               THEN [call EXCEPT !["forecast"] = [i \in AgentIdx |-> Pending]]
               ELSE call
    /\ UNCHANGED <<cacheVars, admVars, fnVars, question_type, lower_bound, upper_bound, completed, agent_names, agents,
                   use_peer_review, agent_max_retries,
                   otherGiven, critiqueGiven, forecasts, critiques, result>>

\* Faulty variant, not the code: the tasks of a question that failed are cancelled
CancelledOnFailure(ph, i) == state = "Failed"

\* asyncio.gather(*tasks) without return_exceptions: when one awaitable raises,
\* the exception goes to the awaiting caller and the other awaitables are not
\* cancelled
Cancelled(ph, i) == FALSE

\* a task of a gathered phase starts running and enters _call_llm
TaskBegin(ph, i) ==
    /\ ph \in {"forecast", "revise"}
    /\ ~Cancelled(ph, i)
    /\ call[ph][i].st = "pending"
    /\ call' = [call EXCEPT ![ph][i] = CallLlmOf(i)]
    /\ completed' = Ended(ph, i, CallLlmOf(i))
    /\ UNCHANGED <<cacheVars, admVars, fnVars, question_type, lower_bound, upper_bound, agent_names, agents,
                   use_peer_review, agent_max_retries, state,
                   otherGiven, critiqueGiven, forecasts, critiques, result>>

\* the post in flight returns a response
AttemptSucceeds(ph, i) ==
    /\ call[ph][i].st = "inflight"
    /\ ~Cancelled(ph, i)
    /\ \E text \in TextsOf(ph) :
          /\ call' = [call EXCEPT ![ph][i] = CallLlmSucceeds(@, text)]
          /\ completed' = Ended(ph, i, CallLlmSucceeds(call[ph][i], text))
    /\ UNCHANGED <<cacheVars, admVars, fnVars, question_type, lower_bound, upper_bound, agent_names, agents,
                   use_peer_review, agent_max_retries, state,
                   otherGiven, critiqueGiven, forecasts, critiques, result>>

\* the post in flight fails
AttemptFails(ph, i) ==
    /\ call[ph][i].st = "inflight"
    /\ ~Cancelled(ph, i)
    /\ call' = [call EXCEPT ![ph][i] = CallLlmFails(@)]
    /\ completed' = Ended(ph, i, CallLlmFails(call[ph][i]))
    /\ UNCHANGED <<cacheVars, admVars, fnVars, question_type, lower_bound, upper_bound, agent_names, agents,
                   use_peer_review, agent_max_retries, state,
                   otherGiven, critiqueGiven, forecasts, critiques, result>>

\* Faulty variant, not the code: peer review whatever the configuration says
AlwaysPeerReview == "PeerReviewing"

\* forecast_binary after run_initial_forecasts: `if self.use_peer_review`
AfterInitialForecasts == IF use_peer_review THEN "PeerReviewing" ELSE "Aggregating"

\* run_initial_forecasts returned; forecast_binary goes on to peer review or
\* straight to aggregation
InitialForecastsReturn ==
    /\ question_type = "binary"
    /\ state = "InitialForecasting"
    /\ GatherDone("forecast")
    /\ forecasts' = GatherResults("forecast")
    /\ state' = AfterInitialForecasts
    /\ UNCHANGED <<cacheVars, admVars, fnVars, question_type, lower_bound, upper_bound, completed, agent_names, agents,
                   use_peer_review, agent_max_retries, call,
                   otherGiven, critiqueGiven, critiques, result>>

\* forecast_numeric / forecast_multiple_choice, iteration i of
\* `for agent in self.agents`: the agent's _call_llm is awaited
AgentLoopCall(i) ==
    /\ question_type # "binary"
    /\ state = "InitialForecasting"
    /\ i = Len0(forecasts)
    /\ call["forecast"][i].st = "none"
    /\ call' = [call EXCEPT !["forecast"][i] = CallLlmOf(i)]
    /\ UNCHANGED <<cacheVars, admVars, fnVars, question_type, lower_bound, upper_bound, completed, agent_names, agents,
                   use_peer_review, agent_max_retries, state,
                   otherGiven, critiqueGiven, forecasts, critiques, result>>

\* iteration i: the response is parsed and the forecast appended
AgentLoopReturns(i) ==
    /\ question_type # "binary"
    /\ state = "InitialForecasting"
    /\ i = Len0(forecasts)
    /\ call["forecast"][i].st = "done"
    /\ ~LoopRaised(i)
    /\ forecasts' = Append0(forecasts, LoopResult(i))
    /\ UNCHANGED <<cacheVars, admVars, fnVars, question_type, lower_bound, upper_bound, completed, agent_names, agents,
                   use_peer_review, agent_max_retries, state, call,
                   otherGiven, critiqueGiven, critiques, result>>

\* iteration i raised: the workflow raises
AgentLoopRaises(i) ==
    /\ question_type # "binary"
    /\ state = "InitialForecasting"
    /\ LoopRaised(i)
    /\ state' = "Failed"
    /\ UNCHANGED <<cacheVars, admVars, fnVars, question_type, lower_bound, upper_bound, completed, agent_names, agents,
                   use_peer_review, agent_max_retries, call,
                   otherGiven, critiqueGiven, forecasts, critiques, result>>

\* the loop over the agents is over
AgentLoopEnds ==
    /\ question_type # "binary"
    /\ state = "InitialForecasting"
    /\ Len0(forecasts) = n
    /\ state' = "Aggregating"
    /\ UNCHANGED <<cacheVars, admVars, fnVars, question_type, lower_bound, upper_bound, completed, agent_names, agents,
                   use_peer_review, agent_max_retries, call,
                   otherGiven, critiqueGiven, forecasts, critiques, result>>

\* run_peer_reviews, iteration i: agent i reviews forecasts[(i + 1) % n]
PeerReviewCall(i) ==
    /\ state = "PeerReviewing"
    /\ i = Len0(critiques)
    /\ call["critique"][i].st = "none"
    /\ otherGiven' = Append0(otherGiven, forecasts[ReviewedIdx(i, n)])
    /\ call' = [call EXCEPT !["critique"][i] = CallLlmOf(i)]
    /\ UNCHANGED <<cacheVars, admVars, fnVars, question_type, lower_bound, upper_bound, completed, agent_names, agents,
                   use_peer_review, agent_max_retries, state,
                   critiqueGiven, forecasts, critiques, result>>

\* run_peer_reviews, iteration i: the awaited peer_review returned
PeerReviewReturns(i) ==
    /\ state = "PeerReviewing"
    /\ i = Len0(critiques)
    /\ call["critique"][i].st = "done"
    /\ critiques' = Append0(critiques, PeerReview(i, otherGiven[i], call["critique"][i].resp))
    /\ UNCHANGED <<cacheVars, admVars, fnVars, question_type, lower_bound, upper_bound, completed, agent_names, agents,
                   use_peer_review, agent_max_retries, state, call,
                   otherGiven, critiqueGiven, forecasts, result>>

\* run_peer_reviews, iteration i: the awaited peer_review raised
PeerReviewRaises(i) ==
    /\ state = "PeerReviewing"
    /\ call["critique"][i].st = "raised"
    /\ state' = "Failed"
    /\ UNCHANGED <<cacheVars, admVars, fnVars, question_type, lower_bound, upper_bound, completed, agent_names, agents,
                   use_peer_review, agent_max_retries, call,
                   otherGiven, critiqueGiven, forecasts, critiques, result>>

\* run_peer_reviews returned; run_revisions creates one task per
\* (agent, forecast, critique) of the zip
RunRevisions ==
    /\ state = "PeerReviewing"
    /\ Len0(critiques) = n
    /\ state' = "Revising"
    /\ critiqueGiven' = [i \in AgentIdx |-> RevisionCritique(critiques, i)]
    /\ call' = [call EXCEPT !["revise"] = [i \in AgentIdx |-> Pending]]
    /\ completed' = << >>
    /\ UNCHANGED <<cacheVars, admVars, fnVars, question_type, lower_bound, upper_bound, agent_names, agents,
                   use_peer_review, agent_max_retries,
                   otherGiven, forecasts, critiques, result>>

\* run_revisions returned
RevisionsReturn ==
    /\ state = "Revising"
    /\ GatherDone("revise")
    /\ forecasts' = GatherResults("revise")
    /\ state' = "Aggregating"
    /\ UNCHANGED <<cacheVars, admVars, fnVars, question_type, lower_bound, upper_bound, completed, agent_names, agents,
                   use_peer_review, agent_max_retries, call,
                   otherGiven, critiqueGiven, critiques, result>>

\* the gather of run_initial_forecasts or run_revisions raised: forecast_binary raises
GatherRaises ==
    /\ question_type = "binary"
    /\ \/ state = "InitialForecasting" /\ GatherRaised("forecast")
       \/ state = "Revising" /\ GatherRaised("revise")
    /\ state' = "Failed"
    /\ UNCHANGED <<cacheVars, admVars, fnVars, question_type, lower_bound, upper_bound, completed, agent_names, agents,
                   use_peer_review, agent_max_retries, call,
                   otherGiven, critiqueGiven, forecasts, critiques, result>>

\* _aggregate_forecasts, _summarize_reasoning and the returned CommitteeResult
Aggregate ==
    /\ state = "Aggregating"
    /\ state' = "Done"
    /\ result' = [question_type |-> question_type,
                  agent_forecasts |-> forecasts,
                  final_probability |-> IF question_type = "binary"
                                        THEN AggregateForecasts(forecasts)
                                        ELSE 5000,
                  final_cdf |-> IF question_type = "numeric"
                                THEN <<AggregateCdfs(forecasts, lower_bound, upper_bound)>>
                                ELSE None]
    /\ UNCHANGED <<cacheVars, admVars, fnVars, question_type, lower_bound, upper_bound, completed, agent_names, agents,
                   use_peer_review, agent_max_retries, call,
                   otherGiven, critiqueGiven, forecasts, critiques>>

WfNext ==
    \/ StartResearch
    \/ ResearchReturns
    \/ \E ph \in Phases, i \in AgentIdx : TaskBegin(ph, i)
    \/ \E ph \in Phases, i \in AgentIdx : AttemptSucceeds(ph, i)
    \/ \E ph \in Phases, i \in AgentIdx : AttemptFails(ph, i)
    \/ InitialForecastsReturn
    \/ \E i \in AgentIdx : AgentLoopCall(i)
    \/ \E i \in AgentIdx : AgentLoopReturns(i)
    \/ \E i \in AgentIdx : AgentLoopRaises(i)
    \/ AgentLoopEnds
    \/ \E i \in AgentIdx : PeerReviewCall(i)
    \/ \E i \in AgentIdx : PeerReviewReturns(i)
    \/ \E i \in AgentIdx : PeerReviewRaises(i)
    \/ RunRevisions
    \/ RevisionsReturn
    \/ GatherRaises
    \/ Aggregate

----------------------------------------------------------------------------
(* research/adj_client.py: ResponseCache *)

MaxTime == 1
TtlSeconds == 1
NumCallers == 2

\* The request keys of the model (method:endpoint:params:json_data).
Keys == { "GET:/markets:None:None", "GET:/events:None:None", "GET:/indices:None:None",
          "GET:/rates:None:None" }

\* The response bodies the model stores under a key: the first endpoint answers
\* with one of two bodies, every other endpoint with one.
Datas(key) == IF key = "GET:/markets:None:None" THEN {"d1", "d2"} ELSE {"d1"}

\* The max_size values the model constructs the cache with.
MaxSizes == {0, 1, 4}

\* ResponseCache._hash: the md5 hex digest of the key.
Hash(key) ==
    CASE key = "GET:/markets:None:None" -> "e564378cfdf9e6fe9a5de61aa107f79a"
      [] key = "GET:/events:None:None"  -> "eb2f1a59fc9ba7a33d6d131e0533b916"
      [] key = "GET:/indices:None:None" -> "0b86a3410fdcd93497516d9207822926"
      [] key = "GET:/rates:None:None"   -> "f7a3509ad1659a6d18381a134395de39"

\* The position of hashed key h in the dict c, 0 when absent.
IndexOf(c, h) ==
    IF \E j \in 1..Len(c) : c[j].key = h
    THEN CHOOSE j \in 1..Len(c) : c[j].key = h
    ELSE 0

\* del self.cache[h]
Delete(c, h) == SelectSeq(c, LAMBDA e : e.key # h)

\* The place of entry j in sorted(cache.keys(), key=timestamp): the sort is
\* stable, so equal timestamps keep dict order.
Rank(c, j) ==
    Cardinality({ i \in 1..Len(c) :
                    \/ c[i].timestamp < c[j].timestamp
                    \/ c[i].timestamp = c[j].timestamp /\ i < j })

\* How many entries an eviction removes: sorted_keys[: len(self.cache) // 4]
EvictCount(c) == Len(c) \div 4

\* When set evicts: len(self.cache) >= self.max_size
MustEvict(c, max) == Len(c) >= max

RECURSIVE KeepFrom(_, _, _)
KeepFrom(c, j, q) ==
    IF j > Len(c) THEN << >>
    ELSE IF Rank(c, j) < q THEN KeepFrom(c, j + 1, q)
         ELSE <<c[j]>> \o KeepFrom(c, j + 1, q)

\* set's eviction block
Evict(c, max) == IF MustEvict(c, max) THEN KeepFrom(c, 1, EvictCount(c)) ELSE c

\* self.cache[hashed] = {"data": data, "timestamp": time.time()}: an existing
\* key keeps its place in the dict, a new one goes last.
Insert(c, key, data, t) ==
    LET h == Hash(key)
        e == [key |-> h, data |-> data, timestamp |-> t]
        j == IndexOf(c, h)
    IN IF j = 0 THEN Append(c, e) ELSE [c EXCEPT ![j] = e]

\* ResponseCache.set
CacheSet(c, key, data, t, max) == Insert(Evict(c, max), key, data, t)

\* Faulty variant, not the code: the freshness test with <= for <
FreshInclusive(e, t) == t - e.timestamp <= TtlSeconds

\* get's freshness test: time.time() - entry["timestamp"] < self.ttl
Fresh(e, t) == t - e.timestamp < TtlSeconds

\* Faulty variant, not the code: the entry is read without the membership test
InCacheUntested(c, h) == TRUE

\* get's membership test: `if hashed in self.cache`
InCache(c, h) == IndexOf(c, h) # 0

\* ResponseCache.get raises KeyError: self.cache[hashed] is read, or deleted,
\* for a hashed key the dict does not hold
CacheGetRaises(c, key) == InCache(c, Hash(key)) /\ IndexOf(c, Hash(key)) = 0

\* ResponseCache.set raises KeyError: `del self.cache[key]` for a key of the
\* eviction slice that the dict does not hold
CacheSetRaises(c, max) ==
    /\ MustEvict(c, max)
    /\ \E j \in 1..Len(c) : Rank(c, j) < EvictCount(c) /\ ~InCache(c, c[j].key)

\* Faulty variant, not the code: get sweeps every expired entry out of the store
CacheGetSweeps(c, key, t) == SelectSeq(c, LAMBDA e : Fresh(e, t))

\* ResponseCache.get: the store it leaves
CacheGetStore(c, key, t) ==
    LET j == IndexOf(c, Hash(key)) IN
    IF InCache(c, Hash(key)) /\ ~Fresh(c[j], t) THEN Delete(c, Hash(key)) ELSE c

\* ResponseCache.get: the value it returns (None when absent or expired)
CacheGetValue(c, key, t) ==
    LET j == IndexOf(c, Hash(key)) IN
    IF InCache(c, Hash(key)) /\ Fresh(c[j], t) THEN <<c[j].data>> ELSE None

\* AdjClient._request with use_cache: a cached value that is not None is
\* returned, otherwise the HTTP request is made
RequestSource(cached) == IF cached # None THEN "cache" ELSE "remote"

NoRet == [op |-> "none", key |-> "", value |-> None]
NoTask == 0
Callers == 1..NumCallers
NoOp == [op |-> "none", key |-> "", data |-> ""]

\* history: the keys whose entry is in c and no longer in the evicted store ev
EvictedKeys(c, ev) ==
    { k \in Keys : IndexOf(c, Hash(k)) # 0 /\ IndexOf(ev, Hash(k)) = 0 }

CacheInit ==
    /\ cache = << >>
    /\ max_size \in MaxSizes
    /\ now = 0
    /\ ret = NoRet
    /\ stored = [k \in Keys |-> None]
    /\ lock = NoTask
    /\ tpc = [t \in Callers |-> "idle"]
    /\ top = [t \in Callers |-> NoOp]
    /\ serial = << >>

\* The values time.time() can have at a read: the clock has not gone back
\* since the last read (the model stops the clock at MaxTime).
ClockReads == now..MaxTime

\* await cache.get(key), its time.time() reading t
Get(key, t) ==
    /\ now' = t
    /\ cache' = CacheGetStore(cache, key, t)
    /\ ret' = [op |-> "get", key |-> key, value |-> CacheGetValue(cache, key, t)]
    /\ UNCHANGED <<wfVars, admVars, fnVars, max_size, stored, lock, tpc, top, serial>>

\* await cache.set(key, data), its time.time() reading t
Set(key, data, t) ==
    /\ now' = t
    /\ cache' = CacheSet(cache, key, data, t, max_size)
    /\ ret' = [op |-> "set", key |-> key, value |-> None]
    /\ LET gone == EvictedKeys(cache, Evict(cache, max_size)) IN
       stored' = [k \in Keys |->
                    IF k = key THEN <<[data |-> data, at |-> t, evicted |-> FALSE]>>
                    ELSE IF k \in gone /\ stored[k] # None
                         THEN <<[stored[k][1] EXCEPT !.evicted = TRUE]>>
                         ELSE stored[k]]
    /\ UNCHANGED <<wfVars, admVars, fnVars, max_size, lock, tpc, top, serial>>

\* await cache.clear()
Clear ==
    /\ cache' = << >>
    /\ ret' = [op |-> "clear", key |-> "", value |-> None]
    /\ stored' = [k \in Keys |-> None]
    /\ UNCHANGED <<wfVars, admVars, fnVars, max_size, now, lock, tpc, top, serial>>

CacheNext ==
    \/ \E key \in Keys, t \in ClockReads : Get(key, t)
    \/ \E key \in Keys, t \in ClockReads : \E data \in Datas(key) : Set(key, data, t)
    \/ Clear

----------------------------------------------------------------------------
(* research/adj_client.py: ResponseCache under concurrent callers.  Each   *)
(* operation is split at its statements, so that only the lock keeps       *)
(* another caller out of the middle of a set.                              *)

Ops ==
    [op : {"get"}, key : Keys, data : {""}] \cup
    UNION { [op : {"set"}, key : {k}, data : Datas(k)] : k \in Keys } \cup
    [op : {"clear"}, key : {""}, data : {""}]

\* Faulty variant, not the code: the operations do not wait for the lock
LockNotTaken == TRUE

\* `async with self._lock` lets a caller in only while nobody holds the lock
LockFree == lock = NoTask

\* a caller calls get, set or clear (operation o) and acquires the lock
Acquire(t, o) ==
    /\ tpc[t] = "idle"
    /\ LockFree
    /\ lock' = t
    /\ top' = [top EXCEPT ![t] = o]
    /\ tpc' = [tpc EXCEPT ![t] = IF o.op = "set" THEN "evict" ELSE o.op]
    /\ UNCHANGED <<wfVars, admVars, fnVars, cache, max_size, now, ret, stored, serial>>

\* set, lines 47-53: the eviction block
SetEvict(t) ==
    /\ tpc[t] = "evict"
    /\ cache' = Evict(cache, max_size)
    /\ tpc' = [tpc EXCEPT ![t] = "insert"]
    /\ UNCHANGED <<wfVars, admVars, fnVars, max_size, now, ret, stored, lock, top, serial>>

\* set, lines 55-57: the insert, and the release of the lock
SetInsert(t) ==
    /\ tpc[t] = "insert"
    /\ \E r \in ClockReads :
          /\ now' = r
          /\ cache' = Insert(cache, top[t].key, top[t].data, r)
          /\ serial' = CacheSet(serial, top[t].key, top[t].data, r, max_size)
    /\ lock' = NoTask
    /\ tpc' = [tpc EXCEPT ![t] = "idle"]
    /\ top' = [top EXCEPT ![t] = NoOp]
    /\ UNCHANGED <<wfVars, admVars, fnVars, max_size, ret, stored>>

\* get's body, and the release of the lock
GetBody(t) ==
    /\ tpc[t] = "get"
    /\ \E r \in ClockReads :
          /\ now' = r
          /\ cache' = CacheGetStore(cache, top[t].key, r)
          /\ serial' = CacheGetStore(serial, top[t].key, r)
    /\ lock' = NoTask
    /\ tpc' = [tpc EXCEPT ![t] = "idle"]
    /\ top' = [top EXCEPT ![t] = NoOp]
    /\ UNCHANGED <<wfVars, admVars, fnVars, max_size, ret, stored>>

\* clear's body, and the release of the lock
ClearBody(t) ==
    /\ tpc[t] = "clear"
    /\ cache' = << >>
    /\ serial' = << >>
    /\ lock' = NoTask
    /\ tpc' = [tpc EXCEPT ![t] = "idle"]
    /\ top' = [top EXCEPT ![t] = NoOp]
    /\ UNCHANGED <<wfVars, admVars, fnVars, max_size, now, ret, stored>>

ConcNext ==
    \/ \E t \in Callers, o \in Ops : Acquire(t, o)
    \/ \E t \in Callers : SetEvict(t)
    \/ \E t \in Callers : SetInsert(t)
    \/ \E t \in Callers : GetBody(t)
    \/ \E t \in Callers : ClearBody(t)

----------------------------------------------------------------------------
(* research/adj_client.py: AdjClient._request, by concurrent callers.  A    *)
(* cache operation runs under the cache's lock from its first statement to *)
(* its last; the HTTP request is made between two of them.                 *)

\* How the HTTP request of _request can end
RemoteOutcomes == {"200", "404", "500", "timeout", "client_error"}

\* what the response of a status other than 200 would be stored as
ErrorBody == "error"

\* Faulty variant, not the code: the body of every response is stored
AnyStatusCached(outcome, use_cache) == use_cache /\ outcome \in {"200", "404", "500"}

\* `if response.status == 200: ... if use_cache: await self.cache.set(...)`
Cached(outcome, use_cache) == use_cache /\ outcome = "200"

\* _request raises: a status other than 200 and 404, a timeout, a client error
RequestRaises(outcome) == outcome \in {"500", "timeout", "client_error"}

\* The callers that call _request in the model, and the keys they request
Requesters == {1, 2}
RequestKeys == {"GET:/markets:None:None", "GET:/events:None:None"}

\* _request is called; with use_cache it awaits cache.get, which takes the
\* lock, and without it goes on to the HTTP request
RequestBegins(t, key, use_cache) ==
    /\ tpc[t] = "idle"
    /\ use_cache => LockFree
    /\ lock' = IF use_cache THEN t ELSE lock
    /\ top' = [top EXCEPT ![t] = [op |-> "request", key |-> key, data |-> "",
                                  use_cache |-> use_cache]]
    /\ tpc' = [tpc EXCEPT ![t] = IF use_cache THEN "get" ELSE "remote"]
    /\ UNCHANGED <<wfVars, admVars, fnVars, cache, max_size, now, ret, stored, serial>>

\* cache.get runs and releases the lock; a value that is not None is
\* returned, otherwise the HTTP request is sent
RequestGets(t) ==
    /\ tpc[t] = "get"
    /\ \E r \in ClockReads :
          /\ now' = r
          /\ cache' = CacheGetStore(cache, top[t].key, r)
          /\ ret' = [op |-> "request", key |-> top[t].key,
                     value |-> CacheGetValue(cache, top[t].key, r),
                     source |-> RequestSource(CacheGetValue(cache, top[t].key, r)),
                     status |-> ""]
          /\ IF RequestSource(CacheGetValue(cache, top[t].key, r)) = "cache"
             THEN tpc' = [tpc EXCEPT ![t] = "idle"] /\ top' = [top EXCEPT ![t] = NoOp]
             ELSE tpc' = [tpc EXCEPT ![t] = "remote"] /\ top' = top
    /\ lock' = NoTask
    /\ UNCHANGED <<wfVars, admVars, fnVars, max_size, stored, serial>>

\* the HTTP request ends: a response that is cached goes on to cache.set,
\* a 200 without caching and a 404 are returned, everything else raises
RemoteResponds(t, outcome, data) ==
    /\ tpc[t] = "remote"
    /\ IF Cached(outcome, top[t].use_cache)
       THEN /\ tpc' = [tpc EXCEPT ![t] = "store"]
            /\ top' = [top EXCEPT ![t].data = IF outcome = "200" THEN data ELSE ErrorBody]
            /\ ret' = ret
       ELSE /\ tpc' = [tpc EXCEPT ![t] = "idle"]
            /\ top' = [top EXCEPT ![t] = NoOp]
            /\ ret' = [op |-> IF RequestRaises(outcome) THEN "raised" ELSE "returned",
                       key |-> top[t].key,
                       value |-> IF outcome = "200" THEN <<data>> ELSE None,
                       source |-> "remote", status |-> outcome]
    /\ UNCHANGED <<wfVars, admVars, fnVars, cache, max_size, now, stored, lock, serial>>

\* cache.set takes the lock
RequestStoreAcquire(t) ==
    /\ tpc[t] = "store"
    /\ LockFree
    /\ lock' = t
    /\ tpc' = [tpc EXCEPT ![t] = "set"]
    /\ UNCHANGED <<wfVars, admVars, fnVars, cache, max_size, now, ret, stored, top, serial>>

\* cache.set runs and releases the lock, and _request returns the data
RequestStores(t) ==
    /\ tpc[t] = "set"
    /\ \E r \in ClockReads :
          /\ now' = r
          /\ cache' = CacheSet(cache, top[t].key, top[t].data, r, max_size)
          /\ stored' = [k \in Keys |->
                IF k = top[t].key
                THEN <<[data |-> top[t].data, at |-> r, evicted |-> FALSE]>>
                ELSE IF k \in EvictedKeys(cache, Evict(cache, max_size)) /\ stored[k] # None
                     THEN <<[stored[k][1] EXCEPT !.evicted = TRUE]>>
                     ELSE stored[k]]
    /\ ret' = [op |-> "returned", key |-> top[t].key, value |-> <<top[t].data>>,
               source |-> "remote", status |-> "200"]
    /\ lock' = NoTask
    /\ tpc' = [tpc EXCEPT ![t] = "idle"]
    /\ top' = [top EXCEPT ![t] = NoOp]
    /\ UNCHANGED <<wfVars, admVars, fnVars, max_size, serial>>

ReqNext ==
    \/ \E t \in Requesters, key \in RequestKeys, use_cache \in BOOLEAN : RequestBegins(t, key, use_cache)
    \/ \E t \in Callers : RequestGets(t)
    \/ \E t \in Callers, outcome \in RemoteOutcomes :
          \E data \in Datas(top[t].key) : RemoteResponds(t, outcome, data)
    \/ \E t \in Callers : RequestStoreAcquire(t)
    \/ \E t \in Callers : RequestStores(t)

----------------------------------------------------------------------------
(* main.py: the admission limiters of VoxForecaster and SimpleVoxForecaster *)

MaxQuestions == 3

\* VoxForecaster._max_concurrent_questions, SimpleVoxForecaster._max_concurrent_questions
ClassMaxConcurrentQuestions == 2

\* Config.max_concurrent_questions
ConfigMaxConcurrentQuestions == 2

BotClasses == {"VoxForecaster", "SimpleVoxForecaster"}
Questions == 1..MaxQuestions

\* Whether the class's _run_forecast_on_binary runs under
\* `async with self._concurrency_limiter`.
ForecastUsesLimiter(cls) == cls = "VoxForecaster"

\* The limiter is a class attribute: one semaphore per class, shared by its instances.
AdmInit ==
    /\ sem = [c \in BotClasses |-> ClassMaxConcurrentQuestions]
    /\ qcls \in [Questions -> BotClasses]
    /\ qpc = [q \in Questions |-> "new"]
    /\ qheld = [q \in Questions |-> 0]

\* run_research: `async with self._concurrency_limiter` admits the question
ResearchAcquire(q) ==
    /\ qpc[q] = "new"
    /\ sem[qcls[q]] > 0
    /\ sem' = [sem EXCEPT ![qcls[q]] = @ - 1]
    /\ qpc' = [qpc EXCEPT ![q] = "research"]
    /\ qheld' = [qheld EXCEPT ![q] = @ + 1]
    /\ UNCHANGED <<wfVars, cacheVars, fnVars, qcls>>

\* Faulty variant, not the code: the permit goes back only when the body returns
ReleasedOnReturn(raised) == IF raised THEN 0 ELSE 1

\* `async with self._concurrency_limiter`: leaving the block releases the
\* permit, whether the body returned or raised; the permits given back
ReleasedOnExit(raised) == 1

\* run_research returns or raises, and leaves the `async with`; a question
\* whose research raised is over
ResearchRelease(q, raised) ==
    /\ qpc[q] = "research"
    /\ sem' = [sem EXCEPT ![qcls[q]] = @ + ReleasedOnExit(raised)]
    /\ qpc' = [qpc EXCEPT ![q] = IF raised THEN "failed" ELSE "researched"]
    /\ qheld' = [qheld EXCEPT ![q] = @ - ReleasedOnExit(raised)]
    /\ UNCHANGED <<wfVars, cacheVars, fnVars, qcls>>

\* VoxForecaster._run_forecast_on_binary: admitted by the limiter
ForecastAcquire(q) ==
    /\ qpc[q] = "researched"
    /\ ForecastUsesLimiter(qcls[q])
    /\ sem[qcls[q]] > 0
    /\ sem' = [sem EXCEPT ![qcls[q]] = @ - 1]
    /\ qpc' = [qpc EXCEPT ![q] = "forecast"]
    /\ qheld' = [qheld EXCEPT ![q] = @ + 1]
    /\ UNCHANGED <<wfVars, cacheVars, fnVars, qcls>>

\* SimpleVoxForecaster._run_forecast_on_binary: no limiter around the call
ForecastStart(q) ==
    /\ qpc[q] = "researched"
    /\ ~ForecastUsesLimiter(qcls[q])
    /\ qpc' = [qpc EXCEPT ![q] = "forecast"]
    /\ UNCHANGED <<wfVars, cacheVars, fnVars, sem, qcls, qheld>>

\* the forecast call returns or raises; a permit taken for it is returned
ForecastEnd(q, raised) ==
    /\ qpc[q] = "forecast"
    /\ sem' = IF ForecastUsesLimiter(qcls[q])
              THEN [sem EXCEPT ![qcls[q]] = @ + ReleasedOnExit(raised)]
              ELSE sem
    /\ qheld' = IF ForecastUsesLimiter(qcls[q])
                THEN [qheld EXCEPT ![q] = @ - ReleasedOnExit(raised)]
                ELSE qheld
    /\ qpc' = [qpc EXCEPT ![q] = IF raised THEN "failed" ELSE "done"]
    /\ UNCHANGED <<wfVars, cacheVars, fnVars, qcls>>

AdmNext ==
    \/ \E q \in Questions : ResearchAcquire(q)
    \/ \E q \in Questions, raised \in BOOLEAN : ResearchRelease(q, raised)
    \/ \E q \in Questions : ForecastAcquire(q)
    \/ \E q \in Questions : ForecastStart(q)
    \/ \E q \in Questions, raised \in BOOLEAN : ForecastEnd(q, raised)

----------------------------------------------------------------------------
(* bot/agents.py: one agent's forecast and revise_forecast on any response *)

\* The critique handed to revise_forecast
SomeCritique == [author |-> "market_prior", about |-> "base_rate_analyst", text |-> Text.Critique]

\* agent.forecast(...), its _call_llm having returned `text`
AgentForecasts(text) ==
    /\ agentOp.name = "none"
    /\ agentOp' = [name |-> "forecast", response |-> text, raised |-> ParseRaisesOn[text],
                   parsed |-> ParseResultOn[text],
                   given |-> None, initial |-> None]
    /\ agentForecast' = IF ParseRaisesOn[text] THEN None ELSE <<Forecast(0, text)>>
    /\ UNCHANGED <<wfVars, cacheVars, admVars, probabilities, weights, aggregated, invocation, frame>>

\* agent.revise_forecast(...) on the forecast made, its _call_llm having
\* returned `text`
AgentRevises(text) ==
    /\ agentOp.name = "forecast"
    /\ ~agentOp.raised
    /\ agentOp' = [name |-> "revise", response |-> text, raised |-> ParseRaisesOn[text],
                   parsed |-> ParseResultOn[text],
                   given |-> agentForecast,
                   initial |-> IF ParseRaisesOn[text] THEN agentForecast
                               ELSE <<InitialAfterRevise(agentForecast[1],
                                        ReviseForecast(0, agentForecast[1], SomeCritique, text))>>]
    /\ agentForecast' = IF ParseRaisesOn[text]
                        THEN agentForecast
                        ELSE <<ReviseForecast(0, agentForecast[1], SomeCritique, text)>>
    /\ UNCHANGED <<wfVars, cacheVars, admVars, probabilities, weights, aggregated, invocation, frame>>

AgentInit ==
    /\ agent_names \in { <<RegistryNames[k]>> : k \in 1..Len(RegistryNames) }
    /\ agents = CreateCommittee(agent_names)
    /\ agentOp = NoAgentOp
    /\ agentForecast = None

AgentNext ==
    \/ \E text \in AgentTexts : AgentForecasts(text)
    \/ \E text \in AgentTexts : AgentRevises(text)

----------------------------------------------------------------------------
(* bot/utils.py: aggregate_logit_space on any probabilities and weights *)

MaxList == 2

\* final probabilities within [0.01, 0.99]; weights, which nothing validates
ProbabilityInputs == {100, 1000, 3000, 5000, 6000, 7000, 8000, 9000, 9900}
WeightInputs == {-10, 0, 10, 15, 20}

ListsOf(S) == UNION { [1..k -> S] : k \in 0..MaxList }

AggInit ==
    /\ probabilities \in ListsOf(ProbabilityInputs)
    /\ weights \in ListsOf(WeightInputs)
    /\ aggregated = NoAggregation

\* aggregate_logit_space(probabilities, weights)
Aggregates ==
    /\ ~aggregated.done
    /\ aggregated' =
          IF WeightedAverageRaises(probabilities, weights)
          THEN [done |-> TRUE, raised |-> TRUE, value |-> 0]
          ELSE [done |-> TRUE, raised |-> FALSE,
                value |-> AggregateLogitSpace(probabilities, weights)]
    /\ UNCHANGED <<wfVars, cacheVars, admVars, agentOp, agentForecast, probabilities, weights,
                   invocation, frame>>

AggNext == Aggregates

----------------------------------------------------------------------------
(* The specifications: each part runs with the other parts at rest *)

----------------------------------------------------------------------------
(* One call of a function outside the workflow *)

NoInvocation == [fn |-> "none"]
NoFrame == [pc |-> "none"]

\* The name lists handed to create_committee: None, or a list of registry
\* names and names the registry does not know
NameInputs == {"base_rate_analyst", "market_prior", "synthesizer", "unknown_agent"}
OptionalNameLists == {None} \cup { <<l>> : l \in ListsOf(NameInputs) }

\* Faulty variant, not the code: no names gives no agents
NoDefaultNames(names) == IF names = None THEN << >> ELSE names[1]

\* create_committee: `if agent_names is None: agent_names = list(AGENT_CONFIGS.keys())`
DefaultNames(names) == IF names = None THEN RegistryNames ELSE names[1]

\* The arguments of cdf_from_percentiles: the percentiles some of 10, 50 and
\* 90 with values inside the range, on its bounds and outside it, in any
\* order; the ranges have lower < upper.  Values of the range are in units
\* that make every grid point x a whole number.
PercentileKeys == {10, 50, 90}
PercentileValues == {-250, 0, 50, 150, 250}
PercentileSets == UNION { [K -> PercentileValues] : K \in (SUBSET PercentileKeys) \ {{}} }
CdfRanges == { <<0, 200>>, <<-250, 150>> }

\* sorted(percentiles.items()): the (p, val) pairs by ascending p
RECURSIVE SortedItems(_, _)
SortedItems(percentiles, keys) ==
    IF keys = {} THEN << >>
    ELSE << <<MinOf(keys), percentiles[MinOf(keys)]>> >>
            \o SortedItems(percentiles, keys \ {MinOf(keys)})

\* x = lower + (upper - lower) * i / 200
GridPoint(lower, upper, i) == lower + ((upper - lower) * i) \div (CdfPoints - 1)

\* the body of `if x < val` for the pair at place j (from 1), in basis points
Interpolate(sorted_p, lower, x, j) ==
    IF j = 1
    THEN IF sorted_p[1][2] # lower
         THEN (sorted_p[1][1] * 100 * (x - lower)) \div (sorted_p[1][2] - lower)
         ELSE 0
    ELSE IF sorted_p[j][2] # sorted_p[j - 1][2]
         THEN sorted_p[j - 1][1] * 100
              + ((x - sorted_p[j - 1][2]) * (sorted_p[j][1] - sorted_p[j - 1][1]) * 100)
                    \div (sorted_p[j][2] - sorted_p[j - 1][2])
         ELSE sorted_p[j - 1][1] * 100

\* the inner for loop at grid point x: the first pair with x < val decides,
\* and the loop's else gives 1.0
CdfAt(sorted_p, lower, x) ==
    IF \A j \in 1..Len(sorted_p) : ~(x < sorted_p[j][2]) THEN 10000
    ELSE Interpolate(sorted_p, lower, x,
                     MinOf({ j \in 1..Len(sorted_p) : x < sorted_p[j][2] }))

\* Faulty variant, not the code: the two ends are left as the loop wrote them
EndsNotFixed(cdf) == cdf

\* cdf[0] = 0.0; cdf[-1] = 1.0
FixEnds(cdf) == [cdf EXCEPT ![0] = 0, ![CdfPoints - 1] = 10000]

\* for i in range(1, 201): cdf[i] = max(cdf[i], cdf[i - 1]): the loop goes
\* upwards, so it leaves at i the largest of cdf[0] .. cdf[i]
RunningMax(cdf) ==
    [i \in 0..(CdfPoints - 1) |->
        IF \A k \in 0..i : cdf[k] <= cdf[i] THEN cdf[i] ELSE MaxOf({ cdf[k] : k \in 0..i })]

\* The responses and option lists of the option-probability step
OptionTexts == ChoiceTexts \cup {Text.ChoicesZero, Text.ChoiceYes}
OptionLists == { Options, Options \o << <<"m","a","y","b","e">> >> }

\* re.search(rf"{option}:\s*([\d.]+)", text, re.IGNORECASE): <<group 1>>, or None
OptionMatch(text, option) ==
    Search([p \in 1..Len(text) |-> LabelledAt(text, p, option \o <<":">>)])

\* parse_option_probabilities, when it does not raise: the options whose
\* label was found, each with the float of its token (in ten-thousandths)
ParseOptionProbabilities(text, options) ==
    [ o \in { options[k] : k \in { j \in 1..Len(options) : OptionMatch(text, options[j]) # None } }
        |-> Float(OptionMatch(text, o)[1]) ]

\* sum(option_probs.values())
RECURSIVE SumValues(_, _)
SumValues(probs, keys) ==
    IF keys = {} THEN 0
    ELSE probs[CHOOSE k \in keys : TRUE]
            + SumValues(probs, keys \ {CHOOSE k \in keys : TRUE})

\* `if total > 0: option_probs = {k: v / total ...}`, a map without a
\* positive total is left as it is.  A probability is the fraction num / den.
NormalizeOptions(probs, total) ==
    [ o \in DOMAIN probs |->
        IF total > 0 THEN [num |-> probs[o], den |-> total]
        ELSE [num |-> probs[o], den |-> 10000] ]

\* Forecaster._aggregate_multiple_choice: {opt: 1.0 / len(options) for opt in options}
AggregateMultipleChoice(fs, options) ==
    [ o \in { options[k] : k \in 1..Len(options) } |-> [num |-> 1, den |-> Len(options)] ]

\* What the three research sources do when they are asked, and the texts
\* they give when they give one.  A text here is a tuple of pieces.
AdjOutcomes == {"text", "empty", "exception", "timeout", "non200"}
AskNewsOutcomes == {"no_credentials", "text", "empty", "exception", "timeout"}
PerplexityOutcomes == {"no_key", "text", "empty", "non200", "exception", "timeout"}
SourceText == [adj |-> <<"## Prediction Market Data">>, asknews |-> <<"### Recent News">>,
               perplexity |-> <<"deep research">>]

\* client.get_market_prior raises: _request raises on a status other than 200
\* and 404, on a timeout and on a client error
MarketPriorRaises(outcome) == outcome \in {"exception", "timeout", "non200"}

\* Faulty variant, not the code: no try around get_market_prior
GetAdjPriorSectionUnguarded(outcome) ==
    [raised |-> MarketPriorRaises(outcome),
     section |-> IF outcome = "text" THEN SourceText.adj ELSE EmptyText]

\* get_adj_prior_section: `except Exception` returns (None, "")
GetAdjPriorSection(outcome) ==
    [raised |-> FALSE,
     section |-> IF MarketPriorRaises(outcome) THEN EmptyText
                 ELSE IF outcome = "text" THEN SourceText.adj ELSE EmptyText]

\* get_asknews_summary: "" without credentials and on any exception
GetAsknewsSummary(outcome) ==
    IF outcome = "no_credentials" THEN EmptyText
    ELSE IF outcome \in {"exception", "timeout"} THEN EmptyText
    ELSE IF outcome = "text" THEN SourceText.asknews ELSE EmptyText

\* get_perplexity_research: "" without key, on a status other than 200 and on
\* any exception
GetPerplexityResearch(outcome) ==
    IF outcome = "no_key" THEN EmptyText
    ELSE IF outcome \in {"exception", "timeout"} THEN EmptyText
    ELSE IF outcome = "non200" THEN EmptyText
    ELSE IF outcome = "text" THEN SourceText.perplexity ELSE EmptyText

\* an awaitable of the gather not yet done; what asyncio.sleep(0) returns
PendingResult == [kind |-> "pending", text |-> EmptyText]
NoneResult == [kind |-> "none", text |-> EmptyText]

\* `isinstance(result, str) and result`
IsNonEmptyStr(r) == r.kind = "str" /\ r.text # EmptyText

\* "\n\n".join(sections)
RECURSIVE Join(_)
Join(sections) ==
    IF sections = << >> THEN EmptyText
    ELSE IF Len(sections) = 1 THEN sections[1]
    ELSE sections[1] \o <<"\n\n">> \o Join(Tail(sections))

\* integrated_research after the gather: the two results are processed, news first
ProcessResults(sections, results, include_asknews, include_perplexity) ==
    sections
    \o (IF include_asknews /\ IsNonEmptyStr(results[1]) THEN <<results[1].text>> ELSE << >>)
    \o (IF include_perplexity /\ IsNonEmptyStr(results[2])
        THEN << <<"### Deep Research\n">> \o results[2].text >> ELSE << >>)

\* Faulty variant, not the code: the wait doubles from two seconds
BackoffFromTwo(attempt) == 2 ^ (attempt + 1)

\* asyncio.sleep(2**attempt)
Backoff(attempt) == 2 ^ attempt

CallInit ==
    /\ invocation \in
          [fn : {"create_committee"}, agent_names : OptionalNameLists]
          \cup [fn : {"cdf_from_percentiles"}, percentiles : PercentileSets, range : CdfRanges]
          \cup [fn : {"forecast_multiple_choice"}, response : OptionTexts, options : OptionLists]
          \cup [fn : {"_call_llm"}, agent_max_retries : 0..MaxRetries]
          \cup [fn : {"integrated_research"}, include_asknews : BOOLEAN,
                include_perplexity : BOOLEAN, adj : AdjOutcomes, asknews : AskNewsOutcomes,
                perplexity : PerplexityOutcomes]
    /\ frame = NoFrame

\* cdf_from_percentiles: its loop over the 201 grid points
CdfFill ==
    /\ invocation.fn = "cdf_from_percentiles"
    /\ frame = NoFrame
    /\ frame' = [pc |-> "filled",
                 cdf |-> [i \in 0..(CdfPoints - 1) |->
                            CdfAt(SortedItems(invocation.percentiles, DOMAIN invocation.percentiles),
                                  invocation.range[1],
                                  GridPoint(invocation.range[1], invocation.range[2], i))]]
    /\ UNCHANGED <<wfVars, cacheVars, admVars, agentOp, agentForecast, probabilities, weights,
                   aggregated, invocation>>

\* cdf_from_percentiles: the two ends are set, the running maximum is taken
\* and the list is returned
CdfReturns ==
    /\ invocation.fn = "cdf_from_percentiles"
    /\ frame.pc = "filled"
    /\ frame' = [pc |-> "returned", value |-> RunningMax(FixEnds(frame.cdf))]
    /\ UNCHANGED <<wfVars, cacheVars, admVars, agentOp, agentForecast, probabilities, weights,
                   aggregated, invocation>>

\* create_committee(agent_names) returns
CreateCommitteeReturns ==
    /\ invocation.fn = "create_committee"
    /\ frame = NoFrame
    /\ frame' = [pc |-> "returned",
                 value |-> CreateCommittee(DefaultNames(invocation.agent_names))]
    /\ UNCHANGED <<wfVars, cacheVars, admVars, agentOp, agentForecast, probabilities, weights,
                   aggregated, invocation>>

\* forecast_multiple_choice with one agent, after its _call_llm returned
\* `response`: the body of the loop, then the aggregation
ChoiceStep ==
    /\ invocation.fn = "forecast_multiple_choice"
    /\ frame = NoFrame
    /\ frame' =
          IF ParseOptionProbabilitiesRaises(invocation.response, invocation.options)
          THEN [pc |-> "raised"]
          ELSE [pc |-> "returned",
                option_probs |->
                    NormalizeOptions(
                        ParseOptionProbabilities(invocation.response, invocation.options),
                        SumValues(ParseOptionProbabilities(invocation.response, invocation.options),
                                  DOMAIN ParseOptionProbabilities(invocation.response,
                                                                  invocation.options))),
                value |-> AggregateMultipleChoice(<< >>, invocation.options)]
    /\ UNCHANGED <<wfVars, cacheVars, admVars, agentOp, agentForecast, probabilities, weights,
                   aggregated, invocation>>

\* integrated_research: get_adj_prior_section is awaited, its section kept
\* when it is not empty, and the two awaitables of the gather are created
AdjSectionReturns ==
    /\ invocation.fn = "integrated_research"
    /\ frame = NoFrame
    /\ frame' =
          IF GetAdjPriorSection(invocation.adj).raised
          THEN [pc |-> "raised"]
          ELSE [pc |-> "gathering",
                sections |-> IF GetAdjPriorSection(invocation.adj).section # EmptyText
                             THEN <<GetAdjPriorSection(invocation.adj).section>>
                             ELSE << >>,
                results |-> <<PendingResult, PendingResult>>]
    /\ UNCHANGED <<wfVars, cacheVars, admVars, agentOp, agentForecast, probabilities, weights,
                   aggregated, invocation>>

\* the first awaitable of the gather ends: get_asknews_summary, or the placeholder
AskNewsTaskEnds ==
    /\ invocation.fn = "integrated_research"
    /\ frame.pc = "gathering"
    /\ frame.results[1] = PendingResult
    /\ frame' = [frame EXCEPT !.results[1] =
                    IF invocation.include_asknews
                    THEN [kind |-> "str", text |-> GetAsknewsSummary(invocation.asknews)]
                    ELSE NoneResult]
    /\ UNCHANGED <<wfVars, cacheVars, admVars, agentOp, agentForecast, probabilities, weights,
                   aggregated, invocation>>

\* the second awaitable of the gather ends: get_perplexity_research, or the placeholder
PerplexityTaskEnds ==
    /\ invocation.fn = "integrated_research"
    /\ frame.pc = "gathering"
    /\ frame.results[2] = PendingResult
    /\ frame' = [frame EXCEPT !.results[2] =
                    IF invocation.include_perplexity
                    THEN [kind |-> "str", text |-> GetPerplexityResearch(invocation.perplexity)]
                    ELSE NoneResult]
    /\ UNCHANGED <<wfVars, cacheVars, admVars, agentOp, agentForecast, probabilities, weights,
                   aggregated, invocation>>

\* asyncio.gather(*tasks, return_exceptions=True) returns, the results are
\* processed and the joined sections returned
ResearchJoined ==
    /\ invocation.fn = "integrated_research"
    /\ frame.pc = "gathering"
    /\ frame.results[1] # PendingResult
    /\ frame.results[2] # PendingResult
    /\ frame' = [pc |-> "returned",
                 value |-> Join(ProcessResults(frame.sections, frame.results,
                                               invocation.include_asknews,
                                               invocation.include_perplexity))]
    /\ UNCHANGED <<wfVars, cacheVars, admVars, agentOp, agentForecast, probabilities, weights,
                   aggregated, invocation>>

\* _call_llm is entered: `for attempt in range(agent_max_retries)` posts
\* attempt 0, or runs no iteration and falls through to `return ""`.
\* frame.events is the history of what the call did, in order.
CallLlmEnters ==
    /\ invocation.fn = "_call_llm"
    /\ frame = NoFrame
    /\ frame' = IF invocation.agent_max_retries <= 0
                THEN [pc |-> "returned", attempt |-> 0, events |-> << >>]
                ELSE [pc |-> "posting", attempt |-> 0, events |-> << <<"post", 0>> >>]
    /\ UNCHANGED <<wfVars, cacheVars, admVars, agentOp, agentForecast, probabilities, weights,
                   aggregated, invocation>>

\* the post of the current attempt answers 2xx: the text is returned
PostSucceeds ==
    /\ invocation.fn = "_call_llm"
    /\ frame.pc = "posting"
    /\ frame' = [frame EXCEPT !.pc = "returned",
                              !.events = Append(@, <<"ok", frame.attempt>>)]
    /\ UNCHANGED <<wfVars, cacheVars, admVars, agentOp, agentForecast, probabilities, weights,
                   aggregated, invocation>>

\* the post of the current attempt raises: the last attempt raises
\* RuntimeError, an earlier one goes to sleep
PostFails ==
    /\ invocation.fn = "_call_llm"
    /\ frame.pc = "posting"
    /\ frame' = IF frame.attempt = invocation.agent_max_retries - 1
                THEN [frame EXCEPT !.pc = "raised",
                                   !.events = Append(@, <<"fail", frame.attempt>>)]
                ELSE [frame EXCEPT !.pc = "sleeping",
                                   !.events = @ \o << <<"fail", frame.attempt>>,
                                                      <<"sleep", Backoff(frame.attempt)>> >>]
    /\ UNCHANGED <<wfVars, cacheVars, admVars, agentOp, agentForecast, probabilities, weights,
                   aggregated, invocation>>

\* the sleep is over: the loop posts the next attempt
SleepEnds ==
    /\ invocation.fn = "_call_llm"
    /\ frame.pc = "sleeping"
    /\ frame' = [frame EXCEPT !.pc = "posting", !.attempt = @ + 1,
                              !.events = Append(@, <<"post", frame.attempt + 1>>)]
    /\ UNCHANGED <<wfVars, cacheVars, admVars, agentOp, agentForecast, probabilities, weights,
                   aggregated, invocation>>

CallNext ==
    \/ CallLlmEnters
    \/ PostSucceeds
    \/ PostFails
    \/ SleepEnds
    \/ AdjSectionReturns
    \/ AskNewsTaskEnds
    \/ PerplexityTaskEnds
    \/ ResearchJoined
    \/ ChoiceStep
    \/ CreateCommitteeReturns
    \/ CdfFill
    \/ CdfReturns

WfIdle ==
    /\ use_peer_review = FALSE
    /\ agent_max_retries = 0
    /\ state = "Idle"
    /\ call = [ph \in Phases |-> << >>]
    /\ otherGiven = << >>
    /\ critiqueGiven = << >>
    /\ forecasts = << >>
    /\ critiques = << >>
    /\ result = NoResult
    /\ question_type = "binary"
    /\ lower_bound = 0
    /\ upper_bound = 0
    /\ completed = << >>

WfRest ==
    /\ agent_names = << >>
    /\ agents = << >>
    /\ WfIdle

CallRest ==
    /\ invocation = NoInvocation
    /\ frame = NoFrame

FnRest ==
    /\ agentOp = NoAgentOp
    /\ agentForecast = None
    /\ probabilities = << >>
    /\ weights = << >>
    /\ aggregated = NoAggregation
    /\ CallRest

CacheRest ==
    /\ cache = << >>
    /\ max_size = 0
    /\ now = 0
    /\ ret = NoRet
    /\ stored = [k \in Keys |-> None]
    /\ lock = NoTask
    /\ tpc = [t \in Callers |-> "idle"]
    /\ top = [t \in Callers |-> NoOp]
    /\ serial = << >>

AdmRest ==
    /\ sem = [c \in BotClasses |-> ClassMaxConcurrentQuestions]
    /\ qcls = [q \in Questions |-> "VoxForecaster"]
    /\ qpc = [q \in Questions |-> "new"]
    /\ qheld = [q \in Questions |-> 0]

\* one binary question through Forecaster.forecast_binary
Init == WfInit /\ CacheRest /\ AdmRest /\ FnRest
Next == WfNext
Spec == Init /\ [][Next]_vars

\* the same, every HTTP attempt and the research call ending at some time and
\* the event loop running a task that can run
SpecLive == Spec /\ WF_vars(Next)

\* one agent, its forecast and then its revise_forecast on any response text
InitAgent ==
    /\ AgentInit /\ WfIdle /\ CacheRest /\ AdmRest
    /\ probabilities = << >> /\ weights = << >> /\ aggregated = NoAggregation
    /\ CallRest
NextAgent == AgentNext
SpecAgent == InitAgent /\ [][NextAgent]_vars

\* one call of aggregate_logit_space
InitAgg ==
    /\ AggInit /\ WfRest /\ CacheRest /\ AdmRest
    /\ agentOp = NoAgentOp /\ agentForecast = None
    /\ CallRest
NextAgg == AggNext
SpecAgg == InitAgg /\ [][NextAgg]_vars

\* one ResponseCache, its operations called one after the other
InitCache == CacheInit /\ WfRest /\ AdmRest /\ FnRest
NextCache == CacheNext
SpecCache == InitCache /\ [][NextCache]_vars

\* one ResponseCache under concurrent callers
InitConc == CacheInit /\ WfRest /\ AdmRest /\ FnRest
NextConc == ConcNext
SpecConc == InitConc /\ [][NextConc]_vars

\* AdjClient._request by concurrent callers
InitReq == CacheInit /\ WfRest /\ AdmRest /\ FnRest
NextReq == ReqNext
SpecReq == InitReq /\ [][NextReq]_vars

\* questions of both bot classes passing their limiters
InitAdm == AdmInit /\ WfRest /\ CacheRest /\ FnRest
NextAdm == AdmNext
SpecAdm == InitAdm /\ [][NextAdm]_vars

\* the same, the event loop running a task that can run: a call under the
\* limiter ends, and a waiter is woken when a permit is free
SpecAdmFair == SpecAdm /\ WF_vars(NextAdm)

\* one call of create_committee, of the option-probability step of
\* forecast_multiple_choice, of cdf_from_percentiles, of integrated_research,
\* or of LLMAgent._call_llm
InitCall ==
    /\ CallInit /\ WfRest /\ CacheRest /\ AdmRest
    /\ agentOp = NoAgentOp /\ agentForecast = None
    /\ probabilities = << >> /\ weights = << >> /\ aggregated = NoAggregation
NextCall == CallNext
SpecCall == InitCall /\ [][NextCall]_vars

----------------------------------------------------------------------------
(* The committee workflow: C1 - C6, checked under Spec *)

\* The critique fields are the names of the agent that wrote it and of the
\* agent whose forecast it is about.
PrevIdx(i) == (i + n - 1) % n
NextIdx(i) == (i + 1) % n

\* The names of the committee identify its agents.
DistinctNames == \A i, j \in AgentIdx : AgentAt(i).name = AgentAt(j).name => i = j

\* C1: with peer review and a committee of n >= 2, the critique handed to agent
\* i's revise call is the one written about agent i's own forecast, by agent
\* (i-1) mod n, and never the one agent i wrote about agent (i+1) mod n.
\* (Stated for the configurations in which every call makes an attempt, so
\* that every critique is a response of the model, and for committees whose
\* names identify the agents.)
C1_ReviseGetsCritiqueReceived ==
    \A i \in DOMAIN critiqueGiven :
        (n >= 2 /\ agent_max_retries >= 1 /\ DistinctNames) =>
            /\ critiqueGiven[i].about = AgentAt(i).name
            /\ critiqueGiven[i].author = AgentAt(PrevIdx(i)).name
            /\ critiqueGiven[i].author # AgentAt(i).name

\* C2: agent i's critique call is given exactly the initial forecast of the
\* agent at position (i+1) mod n, whatever the order in which the forecast
\* calls completed; once the phase is over every agent has written exactly one
\* critique and every agent's forecast has been critiqued exactly once, by
\* agent (i-1) mod n.
C2_PeerReviewRing ==
    /\ \A i \in DOMAIN otherGiven :
          /\ call["critique"][i].st # "none"
          /\ otherGiven[i] = Forecast(NextIdx(i), call["forecast"][NextIdx(i)].resp)
          /\ otherGiven[i].agent_name = AgentAt(NextIdx(i)).name
    /\ \A i \in AgentIdx : call["critique"][i].st # "none" => i \in DOMAIN otherGiven
    /\ Len0(critiques) <= n
    /\ \A i \in DOMAIN critiques : critiques[i].author = AgentAt(i).name
    /\ (question_type = "binary" /\ use_peer_review
          /\ state \in {"Revising", "Aggregating", "Done"}) =>
          /\ Len0(critiques) = n
          /\ \A j \in AgentIdx :
                /\ DistinctNames =>
                      Cardinality({i \in AgentIdx : critiques[i].about = AgentAt(j).name}) = 1
                /\ critiques[PrevIdx(j)].about = AgentAt(j).name

C2_Witness ==
    /\ n = 3
    /\ state = "Revising"
    /\ Len0(critiques) = 3
    /\ \E i \in AgentIdx : call["forecast"][i].resp # call["forecast"][NextIdx(i)].resp

\* C3: for every committee size n >= 1, no agent is asked to critique its own
\* forecast.  (Stated for the configurations in which every call makes an
\* attempt, and for committees whose names identify the agents.)
C3_NoSelfCritique ==
    \A i \in DOMAIN otherGiven :
        (agent_max_retries >= 1 /\ DistinctNames) =>
            otherGiven[i].agent_name # AgentAt(i).name

AllDone(ph) == \A i \in AgentIdx : call[ph][i].st = "done"
SomeCall(ph) == \E i \in AgentIdx : call[ph][i].st # "none"
TerminalPhase == IF question_type = "binary" /\ use_peer_review THEN "revise" ELSE "forecast"

PhaseOrder ==
    { <<"Idle", "Researching">>, <<"Researching", "InitialForecasting">>,
      <<"InitialForecasting", "PeerReviewing">>, <<"InitialForecasting", "Aggregating">>,
      <<"PeerReviewing", "Revising">>, <<"Revising", "Aggregating">>,
      <<"Aggregating", "Done">>,
      <<"InitialForecasting", "Failed">>, <<"PeerReviewing", "Failed">>,
      <<"Revising", "Failed">> }

C4_Barriers ==
    /\ SomeCall("forecast") => state \notin {"Idle", "Researching"}
    /\ SomeCall("critique") => AllDone("forecast") /\ state \notin {"Idle", "Researching", "InitialForecasting"}
    /\ SomeCall("revise") => AllDone("critique") /\ AllDone("forecast")
                             /\ state \notin {"Idle", "Researching", "InitialForecasting", "PeerReviewing"}
    /\ state \in {"Aggregating", "Done"} => AllDone(TerminalPhase)
    /\ result # NoResult => state = "Done"
    /\ ~use_peer_review => ~SomeCall("critique") /\ ~SomeCall("revise")

\* C4: the phases of a question run in the order research, initial forecast,
\* peer critique, revision, aggregation, and each is a barrier: no forecast
\* call exists before research returned, no critique call before every
\* forecast call has returned, no revise call before every critique call has
\* returned, and aggregation runs only once every call of the last phase has
\* returned.
C4_PhasesAreBarriers ==
    /\ []C4_Barriers
    /\ [][state' # state => <<state, state'>> \in PhaseOrder]_vars

C4_Witness ==
    /\ state = "Done"
    /\ use_peer_review
    /\ n = 3
    /\ agent_max_retries = 2
    /\ \A ph \in Phases : AllDone(ph)

\* A call has ended with each of its agent_max_retries attempts failed.
Exhausted(c) == c.st \in {"done", "raised"} /\ ~c.ok

LaterPhases(ph) ==
    CASE ph = "forecast" -> {"critique", "revise"}
      [] ph = "critique" -> {"revise"}
      [] ph = "revise" -> {}

\* C5: when an agent's remote call of some phase has failed for good (all its
\* attempts failed) the question fails: no call of a later phase is made,
\* aggregation is not run and no CommitteeResult is returned.
C5_FailureAbortsQuestion ==
    \A ph \in Phases : \A i \in AgentIdx :
        Exhausted(call[ph][i]) =>
            /\ state \notin {"Aggregating", "Done"}
            /\ result = NoResult
            /\ \A later \in LaterPhases(ph) : ~SomeCall(later)

\* C6: for every agent_max_retries, 0 and 1 included, a remote call whose
\* attempts all failed ends by raising; it returns no value.
C6_ExhaustedCallRaises ==
    \A ph \in Phases : \A i \in AgentIdx :
        Exhausted(call[ph][i]) => call[ph][i].st = "raised"

----------------------------------------------------------------------------
(* ResponseCache: C7, C8 checked under SpecCache, C9 under SpecConc *)

\* C7 as stated: a get(k) after a set(k, v), with no clear and no later set of
\* k in between, returns v while less than ttl_seconds have passed since the
\* set, and absent once ttl_seconds have passed.
C7_RoundTripAsStated ==
    ret.op = "get" =>
        LET s == stored[ret.key] IN
        s # None =>
            IF now - s[1].at < TtlSeconds
            THEN ret.value = <<s[1].data>>
            ELSE ret.value = None

\* C7 as amended: the same, provided also that no later set has evicted k's
\* entry; the set of k itself may have evicted other entries, or k's older one.
C7_RoundTrip ==
    ret.op = "get" =>
        LET s == stored[ret.key] IN
        s # None =>
            IF now - s[1].at < TtlSeconds
            THEN ~s[1].evicted => ret.value = <<s[1].data>>
            ELSE ret.value = None

C7_Witness ==
    /\ ret.op = "get"
    /\ ret.value = <<"d2">>
    /\ stored[ret.key] # None
    /\ \E k \in Keys : stored[k] # None /\ stored[k][1].evicted

\* C8: for every max_size, the store never holds more than max_size entries
\* after an operation.
C8_SizeBounded == Len(cache) <= max_size

\* C9: get, set and clear run inside the one lock: at most one caller is inside
\* an operation, nobody touches the store between a set's eviction and its
\* insert, and whenever the lock is free the store is what the operations give
\* when run one after the other in the order they took the lock.
C9_LockSerializes ==
    /\ \A t \in Callers : tpc[t] # "idle" => lock = t
    /\ lock = NoTask => cache = serial
    /\ \A t \in Callers : tpc[t] \in {"evict", "get", "clear"} => cache = serial
    /\ \A t \in Callers : tpc[t] = "insert" => cache = Evict(serial, max_size)

C9_Witness ==
    \E t \in Callers :
        /\ tpc[t] = "insert"
        /\ Len(cache) < Len(serial)
        /\ now > 0

----------------------------------------------------------------------------
(* The admission limiters: C10, checked under SpecAdm *)

\* The questions that have entered research or forecasting and are in it.
InFlight == { q \in Questions : qpc[q] \in {"research", "forecast"} }

\* C10: at most K = max_concurrent_questions questions are in flight over all
\* bots of both classes, and every forecast call runs holding a permit.
C10_AtMostKInFlight ==
    /\ Cardinality(InFlight) <= ConfigMaxConcurrentQuestions
    /\ \A q \in Questions : qpc[q] = "forecast" => qheld[q] >= 1

----------------------------------------------------------------------------
(* The committee workflow: C11, C12 checked under Spec *)

\* forecast_binary holds the list a gather returned
ForecastsCollected == state \in {"PeerReviewing", "Revising", "Aggregating", "Done"}

\* C11: whatever the order in which the concurrent calls of the initial and
\* of the revision phase end, the forecast at index i of the list the phase
\* returns carries the name and the weight of the committee's agent i.
C11_PositionalResults ==
    ForecastsCollected =>
        /\ DOMAIN forecasts = AgentIdx
        /\ \A i \in AgentIdx :
              /\ forecasts[i].agent_name = AgentAt(i).name
              /\ forecasts[i].weight = AgentAt(i).weight

C11_Witness ==
    /\ state = "Aggregating"
    /\ use_peer_review
    /\ n = 3
    /\ completed = <<2, 0, 1>>

\* C12: with peer review disabled no critique call and no revise call is
\* made, and the forecasts aggregated and returned are the initial ones:
\* final_probability is initial_probability and peer_critique is empty.
C12_NoPeerReviewKeepsInitial ==
    (question_type = "binary" /\ ~use_peer_review) =>
        /\ ~SomeCall("critique") /\ ~SomeCall("revise")
        /\ state \in {"Aggregating", "Done"} =>
              /\ forecasts = GatherResults("forecast")
              /\ \A i \in AgentIdx :
                    /\ <<forecasts[i].final_probability>> = forecasts[i].initial_probability
                    /\ forecasts[i].peer_critique = NoCritique
        /\ state = "Done" => result.agent_forecasts = forecasts

C12_Witness ==
    /\ state = "Done"
    /\ ~use_peer_review
    /\ n = 3
    /\ question_type = "binary"
    /\ \E i, j \in AgentIdx :
          /\ result.agent_forecasts[i].final_probability = 3000
          /\ result.agent_forecasts[j].final_probability = 5000

----------------------------------------------------------------------------
(* The agent operations: C13, C14 checked under SpecAgent, C15 under Spec *)

\* [0.01, 0.99]
Clamped(p) == 100 <= p /\ p <= 9900

\* C13: whatever the response text, the initial_probability and the
\* final_probability of the forecast an agent returns lie in [0.01, 0.99],
\* after forecast and after revise_forecast, fallbacks included.
C13_ProbabilitiesClamped ==
    agentForecast # None =>
        /\ Clamped(agentForecast[1].initial_probability[1])
        /\ Clamped(agentForecast[1].final_probability)

C13_Witness ==
    /\ agentOp.name = "revise"
    /\ agentOp.response = Text.ProbabilityZero
    /\ agentForecast[1].initial_probability = <<9900>>
    /\ agentForecast[1].final_probability = 100

\* C14: when the response matches none of the probability patterns, the
\* operation (forecast or revise_forecast) returns a forecast whose
\* probability is 0.5.
C14_NoMatchGivesNeutral ==
    (/\ agentOp.name \in {"forecast", "revise"}
     /\ ~agentOp.raised
     /\ ParseResultOn[agentOp.response] = None)
        => agentForecast[1].final_probability = 5000

\* C15: no response text makes the question fail: forecast_binary fails only
\* when a remote call raised.  (Stated for the binary workflow.)
C15_NoTextFailsQuestion ==
    (question_type = "binary" /\ state = "Failed") => \E ph \in Phases, i \in AgentIdx : call[ph][i].st = "raised"

----------------------------------------------------------------------------
(* Aggregation: C16 checked under Spec, C17 and C19 under SpecAgg *)

\* C16: a committee of size zero fails fast: the question ends in an error
\* and no CommitteeResult with a final probability is returned.  (Stated for
\* the binary workflow.)
C16_EmptyCommitteeFails ==
    (question_type = "binary" /\ n = 0) => state # "Done" /\ result = NoResult

AggregationReturned == aggregated.done /\ ~aggregated.raised

AllWeightsZero ==
    /\ weights # << >>
    /\ Len(weights) = Len(probabilities)
    /\ \A k \in 1..Len(weights) : weights[k] = 0

\* C17: with every weight zero the aggregation returns the unweighted
\* logit-space mean: what the same probabilities give with all weights 1.
C17_ZeroWeightsUnweightedMean ==
    (AggregationReturned /\ AllWeightsZero) =>
        aggregated.value =
            AggregateLogitSpace(probabilities, [k \in 1..Len(probabilities) |-> 10])

\* C19: for final probabilities within [0.01, 0.99] and every weight vector
\* the code accepts, the aggregated final probability lies in [0.01, 0.99].
C19_FinalProbabilityClamped ==
    AggregationReturned => Clamped(aggregated.value)

----------------------------------------------------------------------------
(* The three workflows: C18, C20 checked under Spec *)

\* C18: at the end of every successful workflow the result holds exactly one
\* AgentForecast per committee agent: as many as the committee has agents,
\* in committee order, their agent names pairwise distinct.  (Stated for the
\* configurations in which every call makes an attempt.)
C18_OneForecastPerAgent ==
    (state = "Done" /\ agent_max_retries >= 1) =>
        /\ DOMAIN result.agent_forecasts = AgentIdx
        /\ \A i \in AgentIdx : result.agent_forecasts[i].agent_name = AgentAt(i).name
        /\ \A i, j \in AgentIdx :
              result.agent_forecasts[i].agent_name = result.agent_forecasts[j].agent_name
                  => i = j

\* C20: the final_cdf of the result of a numeric question is non-decreasing,
\* starts at 0.0 and ends at 1.0.  (Stated for a committee that is not empty
\* and the configurations in which every call makes an attempt.)
C20_FinalCdfIsCdf ==
    (state = "Done" /\ question_type = "numeric" /\ n >= 1 /\ agent_max_retries >= 1) =>
        LET cdf == result.final_cdf[1] IN
        /\ cdf[0] = 0
        /\ cdf[CdfPoints - 1] = 10000
        /\ \A k \in 1..(CdfPoints - 1) : cdf[k - 1] <= cdf[k]

----------------------------------------------------------------------------
(* Concurrency of the phases: C28, C29, C30 checked under Spec *)

\* C28: in the peer-critique phase the critique calls run concurrently: agent
\* i+1's critique call is started without waiting for agent i's critique call
\* to return, so while agent i's call is in flight agent i+1's has been started.
C28_CritiquesConcurrent ==
    \A i \in AgentIdx :
        (i + 1 < n /\ call["critique"][i].st = "inflight")
            => call["critique"][i + 1].st # "none"

\* C29: for a question of any type the initial-forecast phase starts one task
\* per agent and all of them are in flight together: once the call of one agent
\* is under way or has ended, the task of every other agent has been started.
C29_InitialCallsTogether ==
    \A i, j \in AgentIdx :
        call["forecast"][i].st \in {"inflight", "done", "raised"}
            => call["forecast"][j].st # "none"

\* C30: when a task of a concurrent phase has failed and the question with it,
\* the sibling tasks still in flight are not cancelled: each can go on with its
\* call and its retries, a task not yet run can still begin, and nothing they
\* return reaches a result.
C30_SiblingsNotCancelled ==
    state = "Failed" =>
        /\ result = NoResult
        /\ \A ph \in {"forecast", "revise"}, i \in AgentIdx :
              /\ call[ph][i].st = "inflight" =>
                    ENABLED AttemptSucceeds(ph, i) /\ ENABLED AttemptFails(ph, i)
              /\ call[ph][i].st = "pending" => ENABLED TaskBegin(ph, i)

C30_Witness ==
    /\ state = "Failed"
    /\ n = 3
    /\ \E i, j, k \in AgentIdx :
          /\ call["forecast"][i].st = "raised"
          /\ call["forecast"][j].st = "inflight" /\ call["forecast"][j].attempt = 1
          /\ TaskReturned("forecast", k)

----------------------------------------------------------------------------
(* Aggregation in logit space: C23, C24 checked under SpecAgg *)

\* C23: the aggregate of [p, 1 - p] with equal positive weights [w, w] is 0.5,
\* for every p in [0.01, 0.99].
C23_SymmetricPair ==
    ( /\ aggregated.done
      /\ Len(probabilities) = 2 /\ Len(weights) = 2
      /\ probabilities[1] + probabilities[2] = 10000
      /\ weights[1] = weights[2] /\ weights[1] > 0 )
        => ~aggregated.raised /\ aggregated.value = 5000

C23_Witness ==
    /\ aggregated.done
    /\ probabilities = <<9000, 1000>>
    /\ weights = <<10, 10>>
    /\ aggregated.value = 5000

\* C24 as stated: with weights [1.0, 2.0] and probabilities [0.6, 0.8] the
\* aggregate is inv_logit((1*logit(0.6) + 2*logit(0.8)) / 3) and that value is
\* within 0.001 of 0.72.
C24_AsStated ==
    (aggregated.done /\ probabilities = <<6000, 8000>> /\ weights = <<10, 20>>)
        => /\ aggregated.value = InvLogit((1 * Logit(6000) + 2 * Logit(8000)) \div 3)
           /\ aggregated.value >= 7190 /\ aggregated.value <= 7210

\* C24: with weights [1.0, 2.0] and probabilities [0.6, 0.8] the aggregate is
\* inv_logit((1*logit(0.6) + 2*logit(0.8)) / 3), a value between 0.74 and 0.75.
C24_WeightedLogitMean ==
    (aggregated.done /\ probabilities = <<6000, 8000>> /\ weights = <<10, 20>>)
        => /\ ~aggregated.raised
           /\ aggregated.value = InvLogit((1 * Logit(6000) + 2 * Logit(8000)) \div 3)
           /\ aggregated.value >= 7400 /\ aggregated.value < 7500

C24_Witness ==
    /\ aggregated.done /\ ~aggregated.raised
    /\ probabilities = <<6000, 8000>>
    /\ weights = <<10, 20>>
    /\ aggregated.value = 7400

----------------------------------------------------------------------------
(* The cache never raises: C26 checked under SpecCache *)

\* C26: in every store the cache can be in (empty, full, holding expired
\* entries, max_size 0) a get and a set of any key and a clear do not raise:
\* the get finds no KeyError, the set leaves its key in the store; a get that
\* misses (no entry, or an expired one) returns absent, leaves no entry
\* behind, and the client then makes the remote request.
C26_CacheNeverRaises ==
    /\ ~CacheSetRaises(cache, max_size)
    /\ ENABLED Clear
    /\ \A key \in Keys :
          /\ ~CacheGetRaises(cache, key)
          /\ InCache(CacheSet(cache, key, "d1", now, max_size), Hash(key))
          /\ \A t \in ClockReads :
                ( \/ ~InCache(cache, Hash(key))
                  \/ ~Fresh(cache[IndexOf(cache, Hash(key))], t) )
                    => /\ CacheGetValue(cache, key, t) = None
                       /\ RequestSource(CacheGetValue(cache, key, t)) = "remote"
                       /\ ~InCache(CacheGetStore(cache, key, t), Hash(key))

\* A get has missed on an expired entry of a cache built with max_size 0 that
\* still holds another entry.
C26_Witness ==
    /\ max_size = 0
    /\ ret.op = "get" /\ ret.value = None
    /\ stored[ret.key] # None
    /\ ~InCache(cache, Hash(ret.key))
    /\ cache # << >>

----------------------------------------------------------------------------
(* create_committee: C27 checked under SpecCall *)

\* C27 as stated: called without names create_committee returns one agent per
\* registry entry in registry order; called with a list of names it returns one
\* agent per listed name, in listed order, each with the name and the weight of
\* its registry profile.
C27_OneAgentPerName ==
    (invocation.fn = "create_committee" /\ frame.pc = "returned") =>
        IF invocation.agent_names = None
        THEN frame.value = AGENT_CONFIGS
        ELSE LET names == invocation.agent_names[1] IN
             /\ Len(frame.value) = Len(names)
             /\ \A k \in 1..Len(names) :
                   /\ frame.value[k].name = names[k]
                   /\ \E j \in 1..Len(AGENT_CONFIGS) : AGENT_CONFIGS[j] = frame.value[k]

\* C27: called without names create_committee returns one agent per registry
\* entry in registry order; called with a list of names it returns one agent
\* per listed name that the registry knows, in listed order and a name listed
\* twice giving two agents, each with the name and the weight of its registry
\* profile; a name the registry does not know gives no agent.
C27_OneAgentPerKnownName ==
    (invocation.fn = "create_committee" /\ frame.pc = "returned") =>
        IF invocation.agent_names = None
        THEN frame.value = AGENT_CONFIGS
        ELSE LET known == SelectSeq(invocation.agent_names[1], InRegistry) IN
             /\ Len(frame.value) = Len(known)
             /\ \A k \in 1..Len(known) :
                   /\ frame.value[k].name = known[k]
                   /\ \E j \in 1..Len(AGENT_CONFIGS) : AGENT_CONFIGS[j] = frame.value[k]

C27_Witness ==
    /\ invocation.fn = "create_committee"
    /\ invocation.agent_names = << <<"synthesizer", "base_rate_analyst">> >>
    /\ frame.pc = "returned"
    /\ frame.value = << [name |-> "synthesizer", weight |-> 15,
                         system_prompt |-> "AGENT_PROMPTS[synthesizer]"],
                        [name |-> "base_rate_analyst", weight |-> 10,
                         system_prompt |-> "AGENT_PROMPTS[base_rate_analyst]"] >>

----------------------------------------------------------------------------
(* cdf_from_percentiles: C22 checked under SpecCall *)

\* C22: for every non-empty percentile set (values not increasing, equal to a
\* bound or outside the range included) and lower < upper, cdf_from_percentiles
\* returns 201 values that never decrease, lie within [0, 1], start at exactly
\* 0.0 and end at exactly 1.0.
C22_CdfWellFormed ==
    (invocation.fn = "cdf_from_percentiles" /\ frame.pc = "returned") =>
        /\ DOMAIN frame.value = 0..200
        /\ frame.value[0] = 0
        /\ frame.value[200] = 10000
        /\ \A i \in 0..200 : frame.value[i] >= 0 /\ frame.value[i] <= 10000
        /\ \A i \in 0..199 : frame.value[i] <= frame.value[i + 1]

\* The percentile values go down and then beyond the upper bound, so the loop
\* left a last value below 1.0.
C22_Witness ==
    /\ invocation.fn = "cdf_from_percentiles"
    /\ invocation.percentiles = (10 :> 150 @@ 50 :> 50 @@ 90 :> 250)
    /\ invocation.range = <<0, 200>>
    /\ frame.pc = "returned"
    /\ frame.value[100] > 0 /\ frame.value[199] < 10000

----------------------------------------------------------------------------
(* Option probabilities of a multiple-choice question: C21 checked under SpecCall *)

\* the fractions of an option map have one denominator and add up to 1
SumsToOne(probs) ==
    \E d \in { probs[o].den : o \in DOMAIN probs } :
        /\ \A o \in DOMAIN probs : probs[o].den = d
        /\ SumValues([o \in DOMAIN probs |-> probs[o].num], DOMAIN probs) = d

\* C21: the final option probabilities of a multiple-choice forecast have one
\* entry per option, none negative, and add up to 1.0; the option map of an
\* agent whose raw values have a positive sum is renormalized to add up to 1.0,
\* and an all-zero or empty one is replaced by the uniform distribution.
C21_OptionProbabilities ==
    (invocation.fn = "forecast_multiple_choice" /\ frame.pc = "returned") =>
        /\ DOMAIN frame.value = { invocation.options[k] : k \in 1..Len(invocation.options) }
        /\ \A o \in DOMAIN frame.value : frame.value[o].num >= 0 /\ frame.value[o].den > 0
        /\ SumsToOne(frame.value)
        /\ IF \E o \in DOMAIN frame.option_probs : frame.option_probs[o].num > 0
           THEN SumsToOne(frame.option_probs)
           ELSE frame.option_probs = AggregateMultipleChoice(<< >>, invocation.options)

----------------------------------------------------------------------------
(* integrated_research: C25 checked under SpecCall *)

\* what a source contributes: its text when it is enabled and gave one
Contribution(enabled, outcome, text) ==
    IF enabled /\ outcome = "text" THEN <<text>> ELSE << >>

\* C25: integrated_research never raises: whatever failure (exception,
\* timeout, status other than 200, missing credentials) each of the three
\* sources meets, the call goes on to return, and it returns the contributions
\* of exactly the enabled sources that gave a non-empty text, in the order
\* market data, news, deep research; a failed or disabled source gives nothing.
C25_ResearchNeverRaises ==
    invocation.fn = "integrated_research" =>
        /\ frame.pc # "raised"
        /\ frame.pc # "returned" =>
              ENABLED AdjSectionReturns \/ ENABLED AskNewsTaskEnds
                \/ ENABLED PerplexityTaskEnds \/ ENABLED ResearchJoined
        /\ frame.pc = "returned" =>
              frame.value =
                Join(Contribution(TRUE, invocation.adj, SourceText.adj)
                     \o Contribution(invocation.include_asknews, invocation.asknews,
                                     SourceText.asknews)
                     \o Contribution(invocation.include_perplexity, invocation.perplexity,
                                     <<"### Deep Research\n">> \o SourceText.perplexity))

\* market data timed out, news gave a text, deep research answered with a
\* status other than 200: the news text alone is returned
C25_Witness ==
    /\ invocation.fn = "integrated_research"
    /\ invocation.include_asknews /\ invocation.include_perplexity
    /\ invocation.adj = "timeout"
    /\ invocation.asknews = "text"
    /\ invocation.perplexity = "non200"
    /\ frame.pc = "returned"
    /\ frame.value = SourceText.asknews

----------------------------------------------------------------------------
(* The retry policy of _call_llm: C31 checked under SpecCall *)

----------------------------------------------------------------------------
(* Eviction and expiry of ResponseCache: C32, C33 checked under SpecCache *)

\* C32: a set evicts only when its insert would push the store beyond
\* max_size: a set of a key already present, or one that finds free room,
\* removes nothing; when the store is full and the key is new it removes at
\* least one entry; and every entry it removes was inserted no later than
\* every entry it keeps.
C32_EvictsOnlyWhenFull ==
    max_size >= 1 => \A key \in Keys :
        /\ (InCache(cache, Hash(key)) \/ Len(cache) < max_size)
              => Evict(cache, max_size) = cache
        /\ (~InCache(cache, Hash(key)) /\ Len(cache) >= max_size /\ cache # << >>)
              => Len(Evict(cache, max_size)) < Len(cache)
        /\ \A i, j \in 1..Len(cache) :
              ( /\ IndexOf(Evict(cache, max_size), cache[i].key) = 0
                /\ IndexOf(Evict(cache, max_size), cache[j].key) # 0 )
                  => cache[i].timestamp <= cache[j].timestamp

----------------------------------------------------------------------------
(* revise_forecast: C34 checked under SpecAgent *)

\* C34: revise_forecast returns a new AgentForecast and leaves the forecast it
\* was handed as it was; the new one has the agent_name, weight,
\* initial_probability and initial_reasoning of the initial forecast, has as
\* peer_critique the critique it was given, and differs from the initial
\* forecast in no field other than peer_critique, final_probability and
\* final_reasoning, the last being the reasoning of the revise response.
C34_ReviseCarriesForward ==
    (agentOp.name = "revise" /\ ~agentOp.raised) =>
        /\ agentOp.initial = agentOp.given
        /\ agentForecast[1].agent_name = agentOp.given[1].agent_name
        /\ agentForecast[1].weight = agentOp.given[1].weight
        /\ agentForecast[1].initial_probability = agentOp.given[1].initial_probability
        /\ agentForecast[1].initial_reasoning = agentOp.given[1].initial_reasoning
        /\ agentForecast[1].peer_critique = SomeCritique
        /\ agentForecast[1].final_reasoning = ReasoningOn[agentOp.response]
        /\ \A f \in DOMAIN agentForecast[1] :
              f \notin {"peer_critique", "final_probability", "final_reasoning"}
                  => agentForecast[1][f] = agentOp.given[1][f]

\* The initial forecast said 0.2 with the reasoning "low"; the revise response
\* says 75 and nothing else.
C34_Witness ==
    /\ agentOp.name = "revise" /\ ~agentOp.raised
    /\ agentOp.response = Text.Probability75
    /\ agentOp.given[1].final_probability = 2000
    /\ agentOp.initial[1].final_probability = 2000
    /\ agentForecast[1].initial_reasoning = <<"l","o","w">>
    /\ agentForecast[1].initial_probability = <<2000>>
    /\ agentForecast[1].final_probability # 2000
    /\ agentForecast[1].final_reasoning = Text.Probability75

----------------------------------------------------------------------------
(* parse_probability, the order of its patterns: C37 checked under SpecAgent *)

\* The matches of the four patterns in a text, in the order of the source
MatchesIn(text) ==
    << Search([p \in 1..Len(text) |-> ProbabilityAt(text, p)]),
       Search([p \in 1..Len(text) |-> PercentAt(text, p)]),
       Search([p \in 1..Len(text) |-> RatioAt(text, p)]),
       Search([p \in 1..Len(text) |-> OddsAt(text, p)]) >>

\* A ratio match counts when its denominator is above 0
RatioCounts(m) == m # None /\ Float(m[2]) > 0

\* C37: whenever parse_probability returns, its result is the value of the
\* first of the four patterns that matches, in the order label, percentage,
\* ratio, chance phrase: the clamped labelled value when the label matches; else
\* the clamped hundredth of the percentage; else the clamped quotient of a ratio
\* whose denominator is above 0; else the clamped number of the chance phrase
\* (its hundredth when above 1); and the result is None exactly when no
\* pattern matches, a ratio with denominator 0 counting as no match.
C37_FirstMatchWins ==
    (agentOp.name \in {"forecast", "revise"} /\ ~agentOp.raised) =>
        LET m == MatchesIn(agentOp.response) IN
        /\ m[1] # None => agentOp.parsed = <<NormalizeProbability(Float(m[1][1]))>>
        /\ (m[1] = None /\ m[2] # None)
              => agentOp.parsed = <<NormalizeProbability(Float(m[2][1]) \div 100)>>
        /\ (m[1] = None /\ m[2] = None /\ RatioCounts(m[3]))
              => agentOp.parsed =
                   <<NormalizeProbability((Float(m[3][1]) * 10000) \div Float(m[3][2]))>>
        /\ (m[1] = None /\ m[2] = None /\ ~RatioCounts(m[3]) /\ m[4] # None)
              => agentOp.parsed =
                   IF Float(m[4][1]) > 10000
                   THEN <<NormalizeProbability(Float(m[4][1]) \div 100)>>
                   ELSE <<NormalizeProbability(Float(m[4][1]))>>
        /\ agentOp.parsed = None
              <=> (m[1] = None /\ m[2] = None /\ ~RatioCounts(m[3]) /\ m[4] = None)

\* "probability:0.3 5%" holds a label and a percentage: 0.3 is returned, not 0.05
C37_Witness ==
    /\ agentOp.name = "forecast" /\ ~agentOp.raised
    /\ agentOp.response = Text.LabelAndPercent
    /\ MatchesIn(agentOp.response)[1] # None
    /\ MatchesIn(agentOp.response)[2] # None
    /\ agentOp.parsed = <<3000>>

----------------------------------------------------------------------------
(* ResponseCache, expiry: C33 checked under SpecCache *)

\* One operation of the cache, seen from outside: the operation is the one
\* named in ret after the step.
C33_Step ==
    /\ ret'.op = "get" =>
          LET h == Hash(ret'.key)
              j == IndexOf(cache, h)
          IN  IF j # 0 /\ now' - cache[j].timestamp >= TtlSeconds
              THEN /\ Len(cache') = Len(cache) - 1
                   /\ IndexOf(cache', h) = 0
                   /\ \A i \in 1..Len(cache) :
                         i # j => \E k \in 1..Len(cache') : cache'[k] = cache[i]
                   /\ ret'.value = None
              ELSE cache' = cache
    /\ \A j \in 1..Len(cache) :
          IndexOf(cache', cache[j].key) = 0 =>
              \/ ret'.op \in {"set", "clear"}
              \/ /\ ret'.op = "get"
                 /\ Hash(ret'.key) = cache[j].key
                 /\ now' - cache[j].timestamp >= TtlSeconds

\* C33: expiry is lazy and local.  A get of a key whose entry has expired
\* removes that entry and no other, every other entry staying as it was; a get
\* of a key that is live or absent leaves the whole store as it was,
\* timestamps included; and an entry leaves the store in no other way than by a
\* get of its own key once it has expired, by a set (its eviction) or by a
\* clear, so that an expired entry stays, and counts in the size, until then.
C33_LazyExpiry == [][C33_Step]_vars

\* A get has just removed the expired entry of its key, and the store still
\* holds another entry that has expired too.
C33_Witness ==
    /\ ret.op = "get" /\ ret.value = None
    /\ stored[ret.key] # None
    /\ ~stored[ret.key][1].evicted
    /\ now - stored[ret.key][1].at >= TtlSeconds
    /\ IndexOf(cache, Hash(ret.key)) = 0
    /\ \E j \in 1..Len(cache) : now - cache[j].timestamp >= TtlSeconds

----------------------------------------------------------------------------
(* The final option probabilities of a multiple-choice question: C35 checked *)
(* under SpecCall                                                             *)

----------------------------------------------------------------------------
(* The remote calls of a binary question: C36 checked under Spec *)

\* the agents whose call of a phase was made
Called(ph) == { i \in AgentIdx : call[ph][i].st # "none" }

\* C36: a binary question that returned its result made, for its n agents,
\* exactly n forecast calls, n critique calls and n revise calls when peer
\* review is enabled, and exactly n forecast calls and no other when it is
\* disabled: one call per agent and operation, each returned, and each posted
\* with the persona of the agent that made it as its system prompt.
C36_OneCallPerOperation ==
    (state = "Done" /\ question_type = "binary") =>
        /\ Cardinality(Called("forecast")) = n
        /\ Cardinality(Called("critique")) = IF use_peer_review THEN n ELSE 0
        /\ Cardinality(Called("revise")) = IF use_peer_review THEN n ELSE 0
        /\ \A ph \in Phases : \A i \in Called(ph) :
              /\ call[ph][i].st = "done"
              /\ call[ph][i].system = ConfigOf(agents[i + 1].name).system_prompt

\* Three agents with peer review: nine calls, three personas
C36_Witness ==
    /\ state = "Done" /\ question_type = "binary"
    /\ use_peer_review /\ n = 3 /\ agent_max_retries >= 1
    /\ Cardinality(Called("forecast")) + Cardinality(Called("critique"))
          + Cardinality(Called("revise")) = 9
    /\ call["critique"][1].system = "AGENT_PROMPTS[market_prior]"
    /\ call["revise"][2].system = "AGENT_PROMPTS[status_quo_anchor]"
    /\ \A i \in AgentIdx : call["forecast"][i].ok

----------------------------------------------------------------------------
(* AdjClient._request with caching: C39 checked under SpecReq *)

\* every entry of the store is the body of a 200 response to its key
OnlyOkStored ==
    \A j \in 1..Len(cache) :
        \E k \in Keys : cache[j].key = Hash(k) /\ cache[j].data \in Datas(k)

\* a request whose cache.get has just run, for a key that was stored and has
\* since neither expired nor been evicted, takes the stored data from the
\* cache and makes no remote request
StoredIsServed ==
    (ret.op = "request" /\ stored[ret.key] # None) =>
        ((~stored[ret.key][1].evicted /\ now - stored[ret.key][1].at < TtlSeconds)
            => /\ ret.source = "cache"
               /\ ret.value = <<stored[ret.key][1].data>>)

\* nobody holds the lock of the cache while its HTTP request is in flight
NoLockInFlight == \A t \in Callers : tpc[t] \in {"remote", "store"} => lock # t

\* a request that ended with a 404, another status, a timeout or a client
\* error left the store as it was
FailureStoresNothing ==
    (ret'.op \in {"returned", "raised"} /\ ret'.status # "200") => cache' = cache

\* C39: in _request with caching, only the body of a 200 response is stored
\* (a 404, another status, a timeout and a client error leave the store as it
\* was); once a body is stored, every later request of the same key, until
\* the entry expires or is evicted, returns the stored body without a remote
\* request; and the lock of the cache is not held while the remote request is
\* in flight.
C39_RequestCaching ==
    /\ [](OnlyOkStored /\ StoredIsServed /\ NoLockInFlight)
    /\ [][FailureStoresNothing]_vars

\* A request has just been served from the cache, while another caller's
\* remote request is in flight and the last caller to store was not evicted.
C39_Witness ==
    /\ ret.op = "request" /\ ret.source = "cache" /\ ret.value = <<"d2">>
    /\ stored[ret.key] # None /\ stored[ret.key][1].data = "d2"
    /\ \E t \in Callers : tpc[t] = "remote" /\ top[t].use_cache /\ lock # t
    /\ Len(cache) = 2

----------------------------------------------------------------------------
(* The admission permits: C40 checked under SpecAdmFair *)

\* the permits the questions of a class hold
RECURSIVE HeldBy(_, _)
HeldBy(cls, q) ==
    IF q = 0 THEN 0
    ELSE HeldBy(cls, q - 1) + (IF qcls[q] = cls THEN qheld[q] ELSE 0)

\* the pool is never above its initial size, no question holds two permits,
\* a question outside a block under the limiter holds none, and every permit
\* is in the pool or held
PermitsAccounted ==
    /\ \A cls \in BotClasses :
          /\ sem[cls] <= ClassMaxConcurrentQuestions
          /\ sem[cls] + HeldBy(cls, MaxQuestions) = ClassMaxConcurrentQuestions
    /\ \A q \in Questions :
          /\ qheld[q] \in {0, 1}
          /\ qpc[q] \in {"new", "researched", "done", "failed"} => qheld[q] = 0

\* C40: the permit of the limiter is released on every way out of a research
\* or forecast call, return or raise: the pool never holds more than its
\* initial number of permits, no question holds two at once, a question that is
\* outside such a call holds none; and, the running calls terminating, a
\* question that waits for admission to research or to its forecast is
\* eventually admitted.
C40_PermitsReleased ==
    /\ []PermitsAccounted
    /\ \A q \in Questions :
          /\ (qpc[q] = "new") ~> (qpc[q] = "research")
          /\ (qpc[q] = "researched") ~> (qpc[q] = "forecast")

\* Three questions of VoxForecaster: one raised in research, one raised in its
\* forecast, the third has been admitted after them, and the pool is whole but
\* for its permit.
C40_Witness ==
    /\ \A q \in Questions : qcls[q] = "VoxForecaster"
    /\ \E q1, q2, q3 \in Questions :
          /\ qpc[q1] = "failed" /\ qpc[q2] = "failed" /\ q1 # q2
          /\ qpc[q3] = "forecast" /\ qheld[q3] = 1
    /\ sem["VoxForecaster"] = ClassMaxConcurrentQuestions - 1

----------------------------------------------------------------------------
(* Termination of a question: C38 checked under SpecLive *)

\* the workflow has returned its CommitteeResult, or has raised
Terminated ==
    \/ state = "Done" /\ result # NoResult
    \/ state = "Failed"

\* C38: every HTTP attempt and the research call ending sooner or later, and
\* the event loop running what can run, every question terminates: its
\* workflow returns a CommitteeResult or raises.
C38_QuestionTerminates == <>Terminated

\* A binary question of three agents with peer review and the largest number
\* of retries has returned its result, all nine calls having got a response.
C38_Witness ==
    /\ state = "Done" /\ result.question_type = "binary"
    /\ use_peer_review /\ n = 3
    /\ agent_max_retries = MaxRetries
    /\ \A ph \in Phases : \A i \in AgentIdx : call[ph][i].ok

====
